---- MODULE Spec2Model ----
(***************************************************************************)
(* Model of the saints-encyclopedia query layer: the tool definitions of   *)
(* web/lib/ai-tools.ts (SQL assembly and the rows the assembled SQL        *)
(* selects) and the leaders endpoint of web/app/api/leaders/route.ts.      *)
(*                                                                         *)
(* Text values (names, teams, LIKE patterns) are sequences of one-letter   *)
(* strings, so that LIKE is computed character by character.  A SQL text   *)
(* is a sequence of fragments: fixed text, '?' placeholders and values     *)
(* interpolated with ${...}.  Dates are day numbers (ISO dates compare the *)
(* same way).                                                              *)
(***************************************************************************)
EXTENDS Integers, Sequences, FiniteSets, TLC

VARIABLES db, call, issued, ret, http, _db, created, calls,
          statsPage, upload, page, statTable

\* The server side: the tables, the call of a tool or request under way, and
\* the module state of db.ts.
server == <<db, call, issued, ret, http, _db, created, calls>>
\* The pages and the upload script: the state of the StatsPage component, the
\* run of the upload script, the render of a detail page, and the state of
\* a StatTable component.
pages == <<statsPage, upload, page, statTable>>
vars == <<server, pages>>

---------------------------------------------------------------------------
\* Bounds of the model.

\* limit arguments range over -1..MaxLimit
MaxLimit == 2
\* at most this many stat lines in a table that Init varies
MaxLines == 2
\* at most this many direct calls of query() and queryOne()
MaxCalls == 2

---------------------------------------------------------------------------
\* Text.

Brees == <<"B", "r", "e", "e", "s">>
Bush == <<"B", "u", "s", "h">>
Colts == <<"C", "o", "l", "t", "s">>
Falcons == <<"F", "a", "l", "c", "o", "n", "s">>
NewOrleansSaints ==
  <<"N", "e", "w", " ", "O", "r", "l", "e", "a", "n", "s", " ", "S", "a", "i", "n", "t", "s">>
AtlantaFalcons ==
  <<"A", "t", "l", "a", "n", "t", "a", " ", "F", "a", "l", "c", "o", "n", "s">>
\* a team name as another source may spell it
LowerCaseSaints == <<"s", "a", "i", "n", "t", "s">>

\* SQLite's LIKE folds ASCII case.
Fold(c) ==
  CASE c = "A" -> "a" [] c = "B" -> "b" [] c = "C" -> "c" [] c = "F" -> "f"
    [] c = "N" -> "n" [] c = "O" -> "o" [] c = "S" -> "s" [] OTHER -> c

\* s LIKE p: '%' matches any run of characters, '_' any one character.
RECURSIVE LikeMatch(_, _)
LikeMatch(p, s) ==
  IF p = <<>> THEN s = <<>>
  ELSE IF Head(p) = "%"
    THEN LikeMatch(Tail(p), s) \/ (s # <<>> /\ LikeMatch(p, Tail(s)))
  ELSE IF s = <<>> THEN FALSE
  ELSE (Head(p) = "_" \/ Fold(Head(p)) = Fold(Head(s))) /\ LikeMatch(Tail(p), Tail(s))

\* `%${x}%`
Wrap(x) == <<"%">> \o x \o <<"%">>

---------------------------------------------------------------------------
\* SQL values: a type tag and a value, so that values of different types
\* compare unequal, as in SQLite, and NULL compares to nothing.

Num(n) == [t |-> "num", v |-> n]
Txt(s) == [t |-> "text", v |-> s]
Str(s) == [t |-> "str", v |-> s]
Null == [t |-> "null", v |-> 0]

SqlEq(a, b) == a.t = b.t /\ a.t # "null" /\ a.v = b.v
SqlLike(a, p) == a.t = "text" /\ p.t = "text" /\ LikeMatch(p.v, a.v)
SqlGe(a, b) == a.t = "num" /\ b.t = "num" /\ a.v >= b.v

\* Optional inputs are sets of at most one value; JS truthiness of the value.
TruthyNum(o) == o # {} /\ o # {0}
TruthyTxt(o) == o # {} /\ o # {<<>>}
TruthyStr(o) == o # {} /\ o # {""}
The(o) == CHOOSE x \in o : TRUE

---------------------------------------------------------------------------
\* SQL text fragments.  scope numbers the SELECT a fragment belongs to (0 the
\* outermost), binds are the table aliases its FROM/JOIN introduces and refs
\* the aliases it mentions.  What a query selects is computed from its
\* fragments: the conditions written into the text are the conditions applied.

Frag(k, s, scope) ==
  [k |-> k, s |-> s, for |-> "", from |-> "", valid |-> {}, col |-> "", clause |-> "",
   alts |-> {}, scope |-> scope, binds |-> {}, refs |-> {}, verb |-> ""]

\* fixed text
Sql(s, scope, binds, refs) == [Frag("sql", s, scope) EXCEPT !.binds = binds, !.refs = refs]
\* fixed text that starts a SELECT: "SELECT " and s; had it started a DELETE
Delete(s, scope, binds, refs) == [Sql(s, scope, binds, refs) EXCEPT !.verb = "DELETE"]
Select(s, scope, binds, refs) == [Sql(s, scope, binds, refs) EXCEPT !.verb = "SELECT"]
\* a condition on a column written with literals: the disjunction of alts
Cond(col, alts, scope, refs) ==
  [Frag("lit", "", scope) EXCEPT !.col = col, !.alts = alts, !.clause = "where", !.refs = refs]
\* "col op ?": a placeholder, for the input field whose value it stands for
Ph(for, col, op, clause, scope, refs) ==
  [Frag("ph", "?", scope) EXCEPT !.for = for, !.col = col, !.alts = {[op |-> op]},
                                 !.clause = clause, !.refs = refs]
\* ${from}: the input field's value spliced into the text, where the
\* identifiers in valid are the ones that resolve
Splice(v, from, valid, clause, scope) ==
  [Frag("id", v, scope) EXCEPT !.from = from, !.valid = valid, !.clause = clause]

Arg(field, v) == [field |-> field, v |-> v]

Placeholders(text) == SelectSeq(text, LAMBDA f : f.k = "ph")

\* The value bound to the placeholder at position i of the text: the
\* argument with the placeholder's ordinal, NULL if there is none.
PhIndex(text, i) == Cardinality({j \in 1..i : text[j].k = "ph"})
Bound(text, args, i) ==
  IF PhIndex(text, i) \in DOMAIN args THEN args[PhIndex(text, i)].v ELSE Null

\* conds joined by sep: conditions.join(" AND ")
RECURSIVE JoinFrags(_, _)
JoinFrags(conds, sep) ==
  IF conds = <<>> THEN <<>>
  ELSE IF Len(conds) = 1 THEN Head(conds)
  ELSE Head(conds) \o <<sep>> \o JoinFrags(Tail(conds), sep)

\* Every alias a SELECT mentions is introduced by that SELECT's FROM/JOIN,
\* and every spliced identifier resolves.
AliasesResolve(text) ==
  \A i \in DOMAIN text :
    text[i].refs \subseteq
      UNION {text[j].binds : j \in {x \in DOMAIN text : text[x].scope = text[i].scope}}
SplicesResolve(text) ==
  \A i \in DOMAIN text : text[i].k = "id" => text[i].s \in text[i].valid
Prepares(text) == AliasesResolve(text) /\ SplicesResolve(text)

---------------------------------------------------------------------------
\* The database.  Tables are sets of rows; the rows are what an external
\* ingestion wrote, so Init draws them from bounded universes.

TableNames ==
  {"games", "players", "player_passing", "player_rushing", "player_receiving",
   "player_defense", "player_sacks", "player_interceptions", "scoring_plays",
   "team_game_stats", "draft_picks"}

Game(id, season, date, type, opp, res) ==
  [game_id |-> id, season |-> season, game_date |-> date, game_type |-> type,
   opponent |-> opp, result |-> res]

G1 == Game("g1", 2009, 1, "regular", Colts, "W")
G2 == Game("g2", 2009, 2, "preseason", Colts, "L")
G3 == Game("g3", 2009, 3, "playoff", Falcons, "W")
G4 == Game("g4", 2010, 4, "regular", Falcons, "L")
GameUniverse == {G1, G2, G3, G4}
GameIds == {g.game_id : g \in GameUniverse}

PlayersTable ==
  {[player_id |-> 1, player_name |-> Brees], [player_id |-> 2, player_name |-> Bush]}
PlayerIds == {p.player_id : p \in PlayersTable}

\* Offensive stat lines (player_passing, player_rushing, player_receiving):
\* a franchise line of every player in every game, an opposing-team line,
\* and a line whose team is spelled in lower case.
\* Yards are 1 or 2, so that totals of different players tie and differ.
OffenseLines ==
  {[player_id |-> p, game_id |-> g.game_id, team |-> NewOrleansSaints,
    yds |-> ((p + g.game_date) % 2) + 1, td |-> 2 - ((p + g.game_date) % 2)] :
      p \in PlayerIds, g \in GameUniverse}
  \cup
  {[player_id |-> 2, game_id |-> "g1", team |-> AtlantaFalcons, yds |-> 2, td |-> 1],
   [player_id |-> 1, game_id |-> "g1", team |-> LowerCaseSaints, yds |-> 2, td |-> 1]}

\* Defensive stat lines: which table, and the line.  val is the table's
\* stat column (tkl, sacks or int_count).
DefenseTables == {"player_defense", "player_sacks", "player_interceptions"}
DefenseLines ==
  {[tbl |-> t, player_id |-> 1, game_id |-> g, team |-> NewOrleansSaints, val |-> 1] :
      t \in DefenseTables, g \in {"g1", "g2", "g4"}}
  \cup
  {[tbl |-> t, player_id |-> 2, game_id |-> "g1", team |-> NewOrleansSaints, val |-> 2] :
      t \in DefenseTables}
  \cup
  {[tbl |-> "player_sacks", player_id |-> 2, game_id |-> "g1", team |-> AtlantaFalcons,
    val |-> 1]}

ScoringPlays ==
  {[id |-> 1, game_id |-> "g1", quarter |-> 4], [id |-> 2, game_id |-> "g1", quarter |-> 1],
   [id |-> 3, game_id |-> "g4", quarter |-> 2]}

\* The sets of at most n elements of U.
RECURSIVE UpTo(_, _)
UpTo(U, n) ==
  IF n = 0 THEN {{}}
  ELSE LET S == UpTo(U, n - 1) IN S \cup {s \cup {x} : s \in S, x \in U}

\* (player_id, game_id) identifies a stat line of a table.
KeyUnique(L) ==
  \A a, b \in L : (a.player_id = b.player_id /\ a.game_id = b.game_id) => a = b

EmptyDb ==
  [games |-> GameUniverse, players |-> PlayersTable,
   player_passing |-> {}, player_rushing |-> {}, player_receiving |-> {},
   player_defense |-> {}, player_sacks |-> {}, player_interceptions |-> {},
   scoring_plays |-> ScoringPlays,
   team_game_stats |-> {[game_id |-> "g1", team |-> NewOrleansSaints, total_points |-> 3]},
   draft_picks |-> {[player_id |-> 1, player_name |-> Brees, season |-> 2001]}]

DefTable(L, t) ==
  {[player_id |-> l.player_id, game_id |-> l.game_id, team |-> l.team, val |-> l.val] :
      l \in {x \in L : x.tbl = t}}

\* Databases that vary the offensive tables, the defensive tables, and the
\* games with their scoring plays.
OffenseDbs ==
  {[EmptyDb EXCEPT !.player_passing = L, !.player_rushing = L, !.player_receiving = L] :
      L \in {x \in UpTo(OffenseLines, MaxLines) : KeyUnique(x)}}
DefenseDbs ==
  {[EmptyDb EXCEPT !.player_defense = DefTable(L, "player_defense"),
                   !.player_sacks = DefTable(L, "player_sacks"),
                   !.player_interceptions = DefTable(L, "player_interceptions")] :
      L \in {x \in UpTo(DefenseLines, MaxLines) :
               \A t \in DefenseTables : KeyUnique({l \in x : l.tbl = t})}}
GameDbs ==
  {[EmptyDb EXCEPT !.games = G, !.scoring_plays = P] :
      G \in SUBSET GameUniverse, P \in {{}, ScoringPlays}}

Databases == OffenseDbs \cup DefenseDbs \cup GameDbs

NoCall == [tool |-> "none"]
NoHttp == [status |-> 0]
\* let _db: Client | null = null
NoClient == 0
\* A component that is not mounted, a script that is not run.
Unused == [used |-> FALSE]
PagesUnused ==
  /\ statsPage = Unused
  /\ upload = Unused
  /\ page = Unused
  /\ statTable = Unused
\* Nothing is called on the server.
ServerIdle ==
  /\ call = [tool |-> "none"]
  /\ issued = <<>>
  /\ ret = [kind |-> "none"]
  /\ http = [status |-> 0]
  /\ _db = NoClient
  /\ created = 0
  /\ calls = <<>>

\* No client is created when the module is loaded, and nothing has been
\* called.  created counts the calls of createClient; calls are the direct
\* calls of query() and queryOne().
Init ==
  /\ db \in Databases
  /\ call = NoCall
  /\ issued = <<>>
  /\ ret = [kind |-> "none"]
  /\ http = NoHttp
  /\ _db = NoClient
  /\ created = 0
  /\ calls = <<>>
  /\ PagesUnused

---------------------------------------------------------------------------
\* What a statement selects.

\* A joined row: a stat line t (or scoring play), its game g and player p.
NoRow == [none |-> TRUE]
Joined(t, g, p) == [t |-> t, g |-> g, p |-> p]

\* The SQL value of a column of a joined row.
Col(jr, col) ==
  CASE col = "season" -> Num(jr.g.season)
    [] col = "game_type" -> Str(jr.g.game_type)
    [] col = "opponent" -> Txt(jr.g.opponent)
    [] col = "result" -> Str(jr.g.result)
    [] col = "team" -> Txt(jr.t.team)
    [] col = "player_name" -> Txt(jr.p.player_name)
    [] col = "game_id" -> Str(jr.t.game_id)
    [] col = "player_id" -> Num(jr.t.player_id)
    [] col = "yds" -> Num(jr.t.yds)
    [] col = "td" -> Num(jr.t.td)
    [] OTHER -> Null

TestOp(v, op, w) ==
  CASE op = "=" -> SqlEq(v, w)
    [] op = "!=" -> v.t = w.t /\ v.t # "null" /\ v.v # w.v
    [] op = "LIKE" -> SqlLike(v, w)
    [] op = ">=" -> SqlGe(v, w)
    [] OTHER -> FALSE

\* The condition at position i of the text, on the joined row jr.
Holds(text, args, i, jr) ==
  IF text[i].k = "ph"
    THEN \E a \in text[i].alts : TestOp(Col(jr, text[i].col), a.op, Bound(text, args, i))
    ELSE \E a \in text[i].alts : TestOp(Col(jr, text[i].col), a.op, a.lit)

\* The WHERE clause of SELECT number scope.
WhereHolds(text, args, scope, jr) ==
  \A i \in DOMAIN text :
    (text[i].k \in {"ph", "lit"} /\ text[i].clause = "where" /\ text[i].scope = scope)
      => Holds(text, args, i, jr)

\* The value of the LIMIT clause, if the text has one.
LimitAt(text) == {i \in DOMAIN text : text[i].clause = "limit"}
LimitVal(text, args) ==
  LET i == CHOOSE x \in LimitAt(text) : TRUE
  IN IF text[i].k = "ph" THEN Bound(text, args, i) ELSE (CHOOSE a \in text[i].alts : TRUE).lit
\* LIMIT of a value that is no integer is a datatype mismatch
LimitOk(text, args) == LimitAt(text) = {} \/ LimitVal(text, args).t = "num"

Take(rows, n) ==
  IF n < 0 \/ n >= Len(rows) THEN rows ELSE SubSeq(rows, 1, n)
Limited(text, args, rows) ==
  IF LimitAt(text) = {} THEN rows ELSE Take(rows, LimitVal(text, args).v)

\* The orders in which the rows of S may come back: any order (no ORDER BY),
\* or any order that is non-increasing / non-decreasing in the key k, a
\* function on S.  Rows with equal keys come in any order.
Perms(S) ==
  {f \in [1..Cardinality(S) -> S] : \A i, j \in 1..Cardinality(S) : i # j => f[i] # f[j]}
Descending(S, k) ==
  {f \in Perms(S) : \A i \in 1..(Cardinality(S) - 1) : k[f[i]] >= k[f[i + 1]]}
Ascending(S, k) ==
  {f \in Perms(S) : \A i \in 1..(Cardinality(S) - 1) : k[f[i]] <= k[f[i + 1]]}

\* SUM of f over the rows of S
RECURSIVE SumOf(_, _)
SumOf(S, f) ==
  IF S = {} THEN 0
  ELSE LET x == CHOOSE y \in S : TRUE IN f[x] + SumOf(S \ {x}, f)

---------------------------------------------------------------------------
\* db.ts: the client is created by the first getDb() and kept in _db.

\* createClient({url, authToken}): a new client instance, the n-th
createClient(n) == n
\* The client getDb() returns.
TheDb == IF _db = NoClient THEN createClient(created + 1) ELSE _db
\* getDb(), had it no test of _db: a client for every call.
getDbAlways ==
  /\ _db' = createClient(created + 1)
  /\ created' = created + 1
getDb ==
  /\ _db' = TheDb
  /\ created' = IF _db = NoClient THEN created + 1 ELSE created

\* db.ts: query(sql, args) executes one statement and returns its rows; an
\* execution error is thrown to the caller.

Statement(sql, args) == [sql |-> sql, args |-> args]
Thrown == [kind |-> "throw"]
Rows(r) == [kind |-> "rows", rows |-> r]

\* The outcomes of query(): R is the set of row sequences the statement may
\* select.  A text that does not prepare throws.  With a number of
\* arguments other than the number of placeholders the client either
\* rejects the statement or binds NULL to what is left over.
query(stmt, R) ==
  IF ~Prepares(stmt.sql) \/ ~LimitOk(stmt.sql, stmt.args) THEN {Thrown}
  ELSE IF Len(Placeholders(stmt.sql)) # Len(stmt.args)
    THEN {Thrown} \cup {Rows(r) : r \in R}
    ELSE {Rows(r) : r \in R}

\* execute() runs the one statement it is given.  A statement that starts
\* with SELECT reads; the tables after a statement of another kind may be
\* any.
Reads(stmt) == Head(stmt.sql).verb = "SELECT"
TablesAfter(d, stmts) ==
  IF \A i \in DOMAIN stmts : Reads(stmts[i]) THEN {d} ELSE Databases
\* The statements a tool issued have been executed.
Executed == db' \in TablesAfter(db, issued')

---------------------------------------------------------------------------
\* saintsTools.query_games

GamesCols ==
  {"game_id", "season", "game_date", "game_type", "opponent", "home_away",
   "saints_score", "opponent_score", "result"}

QueryGamesSql(season, opponent, result, game_type, limit) ==
  LET c1 == IF TruthyNum(season) THEN <<  <<Ph("season", "season", "=", "where", 0, {})>>  >> ELSE <<>>
      a1 == IF TruthyNum(season) THEN <<Arg("season", Num(The(season)))>> ELSE <<>>
      c2 == IF TruthyTxt(opponent) THEN <<  <<Ph("opponent", "opponent", "LIKE", "where", 0, {})>>  >> ELSE <<>>
      a2 == IF TruthyTxt(opponent) THEN <<Arg("opponent", Txt(Wrap(The(opponent))))>> ELSE <<>>
      c3 == IF TruthyStr(result) THEN <<  <<Ph("result", "result", "=", "where", 0, {})>>  >> ELSE <<>>
      a3 == IF TruthyStr(result) THEN <<Arg("result", Str(The(result)))>> ELSE <<>>
      c4 == IF TruthyStr(game_type) THEN <<  <<Ph("game_type", "game_type", "=", "where", 0, {})>>  >> ELSE <<>>
      a4 == IF TruthyStr(game_type) THEN <<Arg("game_type", Str(The(game_type)))>> ELSE <<>>
      conditions == c1 \o c2 \o c3 \o c4
      where == IF Len(conditions) > 0
                 THEN <<Sql("WHERE", 0, {}, {})>> \o JoinFrags(conditions, Sql("AND", 0, {}, {}))
                 ELSE <<>>
      args == a1 \o a2 \o a3 \o a4 \o <<Arg("limit", Num(limit))>>
  IN Statement(
       <<Select("game_id, season, game_date, game_type, opponent, home_away, saints_score, opponent_score, result FROM games", 0, {}, {})>>
         \o where
         \o <<Sql("ORDER BY game_date DESC", 0, {}, {}), Sql("LIMIT", 0, {}, {}),
              Ph("limit", "", "LIMIT", "limit", 0, {})>>,
       args)

\* SELECT ... FROM games [WHERE ...] ORDER BY game_date DESC LIMIT ?
GamesSelected(d, stmt) ==
  LET S == {g \in d.games : WhereHolds(stmt.sql, stmt.args, 0, Joined(NoRow, g, NoRow))}
  IN {Limited(stmt.sql, stmt.args, r) : r \in Descending(S, [g \in S |-> g.game_date])}

\* Inputs of the tool calls.
SeasonInputs == {{}, {0}, {2009}, {2010}}
OpponentInputs == {{}, {<<>>}, {<<"C", "o", "l">>}}
ResultInputs == {{}, {"W"}}
GameTypeInputs == {{}, {"preseason"}}
\* limit is z.number(): a negative limit is valid input too
LimitInputs == -1..MaxLimit

query_games(season, opponent, result, game_type, limit) ==
  LET stmt == QueryGamesSql(season, opponent, result, game_type, limit)
  IN \E out \in query(stmt, GamesSelected(db, stmt)) :
       /\ call' = [tool |-> "query_games",
                   input |-> [season |-> season, opponent |-> opponent, result |-> result,
                              game_type |-> game_type, limit |-> limit]]
       /\ issued' = <<stmt>>
       /\ ret' = out
       /\ UNCHANGED http

---------------------------------------------------------------------------
\* saintsTools.query_player_stats

\* "team LIKE '%Saints%' OR team LIKE '%New Orleans%'", team named through refs
teamLike(scope, refs) ==
  Cond("team",
       {[op |-> "LIKE", lit |-> Txt(<<"%", "S", "a", "i", "n", "t", "s", "%">>)],
        [op |-> "LIKE",
         lit |-> Txt(<<"%", "N", "e", "w", " ", "O", "r", "l", "e", "a", "n", "s", "%">>)]},
       scope, refs)
\* "(t.team LIKE '%Saints%' OR t.team LIKE '%New Orleans%')"
teamCondition(scope) == teamLike(scope, {"t"})
\* "p.player_name LIKE ?"
playerCondition(scope) == Ph("player_name", "player_name", "LIKE", "where", scope, {"p"})
\* A condition on g.game_type that every game type passes.
anyGameType(scope) ==
  Cond("game_type",
       {[op |-> "=", lit |-> Str("regular")], [op |-> "=", lit |-> Str("playoff")],
        [op |-> "=", lit |-> Str("preseason")]},
       scope, {"g"})
\* "g.game_type = 'regular'"
regularOnly(scope) == Cond("game_type", {[op |-> "=", lit |-> Str("regular")]}, scope, {"g"})
And(scope) == Sql("AND", scope, {}, {})

\* season ? "AND g.season = ?" : ""
seasonWhere(season, scope) ==
  IF TruthyNum(season)
    THEN <<And(scope), Ph("season", "season", "=", "where", scope, {"g"})>>
    ELSE <<>>

\* const args = [`%${player_name}%`]; if (season) args.push(season)
PlayerStatsArgs(player_name, season) ==
  <<Arg("player_name", Txt(Wrap(player_name)))>>
    \o (IF TruthyNum(season) THEN <<Arg("season", Num(The(season)))>> ELSE <<>>)

\* One of the three per-player subselects of the defense queries:
\* SELECT t.player_id, SUM(...) FROM <tbl> t JOIN games g ON ...
\* WHERE teamCondition AND g.game_type = 'regular' [AND g.season = ?]
\* GROUP BY t.player_id
DefenseSub(tbl, alias, season, scope) ==
  <<Sql("LEFT JOIN (", 0, {}, {}),
    Select("t.player_id, SUM(...) FROM", scope, {}, {"t"}),
    [Sql(tbl, scope, {"t", "g"}, {"t", "g"}) EXCEPT !.clause = "from"],
    Sql("t JOIN games g ON t.game_id = g.game_id WHERE", scope, {}, {"t", "g"}),
    teamCondition(scope), And(scope), regularOnly(scope)>>
  \o seasonWhere(season, scope)
  \o <<Sql("GROUP BY t.player_id", scope, {}, {"t"})>>

StatTypes == {"passing", "rushing", "receiving", "defense"}
OffenseTypes == {"passing", "rushing", "receiving"}
StatTable(stat_type) ==
  CASE stat_type = "passing" -> "player_passing"
    [] stat_type = "rushing" -> "player_rushing"
    [] stat_type = "receiving" -> "player_receiving"
    [] OTHER -> "player_defense"

\* career totals, defense (lines 68-98)
PlayerDefenseCareerSql(player_name, season) ==
  Statement(
    <<Select("p.player_name, COALESCE(def.tkl, 0) as tkl, ..., COALESCE(sk.sacks, 0) as sacks, COALESCE(it.int_count, 0) as interceptions FROM players p",
          0, {"p"}, {"p", "def", "sk", "it"})>>
    \o DefenseSub("player_defense", "def", season, 1)
    \o <<Sql(") def ON def.player_id = p.player_id", 0, {"def"}, {"def", "p"})>>
    \o DefenseSub("player_sacks", "sk", season, 2)
    \o <<Sql(") sk ON sk.player_id = p.player_id", 0, {"sk"}, {"sk", "p"})>>
    \o DefenseSub("player_interceptions", "it", season, 3)
    \o <<Sql(") it ON it.player_id = p.player_id", 0, {"it"}, {"it", "p"}),
         Sql("WHERE", 0, {}, {}), playerCondition(0),
         Sql("AND (def.player_id IS NOT NULL OR sk.player_id IS NOT NULL OR it.player_id IS NOT NULL)",
             0, {}, {"def", "sk", "it"})>>,
    PlayerStatsArgs(player_name, season))

\* game by game, defense (lines 100-119): the three subselects of all_gp
\* apply teamCondition, which names the alias t, to a table without alias
PlayerDefenseGamesSql(player_name, season) ==
  Statement(
    <<Select("p.player_name, g.game_date, g.opponent, g.season, COALESCE(pd.tkl, 0) as tkl, ..., COALESCE(sk.sacks, 0) as sacks, COALESCE(it.int_count, 0) as interceptions FROM players p JOIN (",
          0, {"p"}, {"p", "g", "pd", "sk", "it"}),
      Select("game_id, player_id FROM player_defense WHERE", 1, {"player_defense"}, {}),
      teamCondition(1),
      Sql("UNION SELECT game_id, player_id FROM player_sacks WHERE", 2, {"player_sacks"}, {}),
      teamCondition(2),
      Sql("UNION SELECT game_id, player_id FROM player_interceptions WHERE", 3,
          {"player_interceptions"}, {}),
      teamCondition(3),
      Sql(") all_gp ON all_gp.player_id = p.player_id JOIN games g ON all_gp.game_id = g.game_id LEFT JOIN player_defense pd ON ... LEFT JOIN player_sacks sk ON ... LEFT JOIN player_interceptions it ON ...",
          0, {"all_gp", "g", "pd", "sk", "it"}, {"all_gp", "p", "g", "pd", "sk", "it"}),
      Sql("WHERE", 0, {}, {}), playerCondition(0), And(0),
      Cond("game_type", {[op |-> "!=", lit |-> Str("preseason")]}, 0, {"g"})>>
    \o seasonWhere(season, 0)
    \o <<Sql("ORDER BY g.game_date DESC", 0, {}, {"g"}),
         [Cond("", {[op |-> "LIMIT", lit |-> Num(50)]}, 0, {}) EXCEPT !.clause = "limit"]>>,
    PlayerStatsArgs(player_name, season))

\* FROM ${table} t JOIN players p ON ... JOIN games g ON ..., table = `player_${stat_type}`
FromStatTable(stat_type) ==
  <<Sql("FROM player_", 0, {}, {}),
    Splice(stat_type, "stat_type", OffenseTypes, "from", 0),
    Sql("t JOIN players p ON t.player_id = p.player_id JOIN games g ON t.game_id = g.game_id",
        0, {"t", "p", "g"}, {"t", "p", "g"})>>

\* career totals, passing / rushing / receiving (lines 122-145)
PlayerCareerSql(player_name, stat_type, season) ==
  Statement(
    <<Select("p.player_name, SUM(t.yds) as yds, SUM(t.td) as td, ..., COUNT(DISTINCT t.game_id) as games",
          0, {}, {"p", "t"})>>
    \o FromStatTable(stat_type)
    \o <<Sql("WHERE", 0, {}, {}), playerCondition(0), And(0), teamCondition(0)>>
    \o seasonWhere(season, 0)
    \o <<Sql("GROUP BY t.player_id", 0, {}, {"t"})>>,
    PlayerStatsArgs(player_name, season))

\* The game-by-game statement, had it the game-type condition of the career
\* defense statement.
PlayerGamesSqlRegular(player_name, stat_type, season) ==
  Statement(
    <<Select("p.player_name, g.game_date, g.opponent, g.season, t.yds, t.td, ...",
          0, {}, {"p", "g", "t"})>>
    \o FromStatTable(stat_type)
    \o <<Sql("WHERE", 0, {}, {}), playerCondition(0), And(0), teamCondition(0), And(0),
         regularOnly(0)>>
    \o seasonWhere(season, 0)
    \o <<Sql("ORDER BY g.game_date DESC", 0, {}, {"g"}),
         [Cond("", {[op |-> "LIMIT", lit |-> Num(50)]}, 0, {}) EXCEPT !.clause = "limit"]>>,
    PlayerStatsArgs(player_name, season))

\* game by game, passing / rushing / receiving (lines 147-167)
PlayerGamesSql(player_name, stat_type, season) ==
  Statement(
    <<Select("p.player_name, g.game_date, g.opponent, g.season, t.yds, t.td, ...",
          0, {}, {"p", "g", "t"})>>
    \o FromStatTable(stat_type)
    \o <<Sql("WHERE", 0, {}, {}), playerCondition(0), And(0), teamCondition(0)>>
    \o seasonWhere(season, 0)
    \o <<Sql("ORDER BY g.game_date DESC", 0, {}, {"g"}),
         [Cond("", {[op |-> "LIMIT", lit |-> Num(50)]}, 0, {}) EXCEPT !.clause = "limit"]>>,
    PlayerStatsArgs(player_name, season))

QueryPlayerStatsSql(player_name, stat_type, season, career_totals) ==
  IF stat_type = "defense"
    THEN IF career_totals THEN PlayerDefenseCareerSql(player_name, season)
                           ELSE PlayerDefenseGamesSql(player_name, season)
    ELSE IF career_totals THEN PlayerCareerSql(player_name, stat_type, season)
                          ELSE PlayerGamesSql(player_name, stat_type, season)

\* The table a SELECT reads: its FROM fragment.
FromAt(text, scope) ==
  CHOOSE i \in DOMAIN text : text[i].clause = "from" /\ text[i].scope = scope
ScopeTable(text, scope) ==
  LET f == text[FromAt(text, scope)] IN IF f.k = "id" THEN StatTable(f.s) ELSE f.s

\* <tbl> t JOIN games g ON t.game_id = g.game_id
JoinGames(d, tbl) ==
  {jr \in {Joined(l, g, NoRow) : l \in d[tbl], g \in d.games} : jr.t.game_id = jr.g.game_id}
\* <tbl> t JOIN players p ON t.player_id = p.player_id JOIN games g ON t.game_id = g.game_id
JoinPlayersGames(d, tbl) ==
  UNION {{Joined(jr.t, jr.g, p) : p \in {x \in d.players : x.player_id = jr.t.player_id}} :
           jr \in JoinGames(d, tbl)}

\* The joined rows of SELECT number scope that pass its WHERE clause.
ScopeRows(d, stmt, scope, J) == {jr \in J : WhereHolds(stmt.sql, stmt.args, scope, jr)}

\* SUM over the rows of one group; NULL when a LEFT JOIN finds no group.
SumOrNull(S, f) == IF S = {} THEN Null ELSE Num(SumOf(S, f))
Coalesce(v, n) == IF v.t = "null" THEN Num(n) ELSE v
ValOf(S) == [jr \in S |-> jr.t.val]
YdsOf(S) == [jr \in S |-> jr.t.yds]
TdOf(S) == [jr \in S |-> jr.t.td]
GamesOf(S) == Cardinality({jr.t.game_id : jr \in S})

\* Rows carry the key of the line or group they come from (player_id,
\* game_id, season) beside the selected columns, so that two lines with
\* equal selected values stay two rows.

\* The rows of the career defense statement, in any order (no ORDER BY).
PlayerDefenseCareerSelected(d, stmt) ==
  LET Sub(n) == ScopeRows(d, stmt, n, JoinGames(d, ScopeTable(stmt.sql, n)))
      Of(n, pid) == {jr \in Sub(n) : jr.t.player_id = pid}
      P == {p \in d.players :
              /\ WhereHolds(stmt.sql, stmt.args, 0, Joined(NoRow, NoRow, p))
              /\ \E n \in 1..3 : Of(n, p.player_id) # {}}
  IN Perms({[player_id |-> p.player_id, player_name |-> p.player_name,
             tkl |-> Coalesce(SumOrNull(Of(1, p.player_id), ValOf(Of(1, p.player_id))), 0),
             sacks |-> Coalesce(SumOrNull(Of(2, p.player_id), ValOf(Of(2, p.player_id))), 0),
             interceptions |-> Coalesce(SumOrNull(Of(3, p.player_id), ValOf(Of(3, p.player_id))), 0)] :
            p \in P})

\* COALESCE(x.col, 0) of the LEFT JOIN of tbl on (player_id, game_id)
LeftVal(d, tbl, pid, gid) ==
  LET S == {l \in d[tbl] : l.player_id = pid /\ l.game_id = gid}
  IN Coalesce(IF S = {} THEN Null ELSE Num((CHOOSE l \in S : TRUE).val), 0)

\* The rows of the game-by-game defense statement.
PlayerDefenseGamesSelected(d, stmt) ==
  LET Keys(n, tbl) ==
        {<<l.player_id, l.game_id>> :
           l \in {x \in d[tbl] : WhereHolds(stmt.sql, stmt.args, n, Joined(x, NoRow, NoRow))}}
      all_gp == Keys(1, "player_defense") \cup Keys(2, "player_sacks")
                  \cup Keys(3, "player_interceptions")
      J == {jr \in {Joined([player_id |-> k[1], game_id |-> k[2]], g, p) :
                      k \in all_gp, g \in d.games, p \in d.players} :
              /\ jr.p.player_id = jr.t.player_id
              /\ jr.g.game_id = jr.t.game_id
              /\ WhereHolds(stmt.sql, stmt.args, 0, jr)}
      S == {[player_id |-> jr.t.player_id, game_id |-> jr.t.game_id,
             player_name |-> jr.p.player_name, game_date |-> jr.g.game_date,
             opponent |-> jr.g.opponent, season |-> jr.g.season,
             tkl |-> LeftVal(d, "player_defense", jr.t.player_id, jr.t.game_id),
             sacks |-> LeftVal(d, "player_sacks", jr.t.player_id, jr.t.game_id),
             interceptions |-> LeftVal(d, "player_interceptions", jr.t.player_id, jr.t.game_id)] :
            jr \in J}
  IN {Limited(stmt.sql, stmt.args, r) : r \in Descending(S, [x \in S |-> x.game_date])}

\* The rows of the career statement of an offensive table: one per player.
PlayerCareerSelected(d, stmt) ==
  LET J == ScopeRows(d, stmt, 0, JoinPlayersGames(d, ScopeTable(stmt.sql, 0)))
      Of(pid) == {jr \in J : jr.t.player_id = pid}
  IN Perms({[player_id |-> pid,
             player_name |-> (CHOOSE jr \in Of(pid) : TRUE).p.player_name,
             yds |-> SumOrNull(Of(pid), YdsOf(Of(pid))),
             td |-> SumOrNull(Of(pid), TdOf(Of(pid))),
             games |-> Num(GamesOf(Of(pid)))] :
            pid \in {jr.t.player_id : jr \in J}})

\* One row of a game-by-game statement of an offensive table.
LineRow(jr) ==
  [player_id |-> jr.t.player_id, game_id |-> jr.t.game_id,
   player_name |-> jr.p.player_name, game_date |-> jr.g.game_date,
   opponent |-> jr.g.opponent, season |-> jr.g.season,
   yds |-> Num(jr.t.yds), td |-> Num(jr.t.td)]

PlayerGamesSelected(d, stmt) ==
  LET J == ScopeRows(d, stmt, 0, JoinPlayersGames(d, ScopeTable(stmt.sql, 0)))
      S == {LineRow(jr) : jr \in J}
  IN {Limited(stmt.sql, stmt.args, r) : r \in Descending(S, [x \in S |-> x.game_date])}

QueryPlayerStatsSelected(d, stmt, stat_type, career_totals) ==
  IF stat_type = "defense"
    THEN IF career_totals THEN PlayerDefenseCareerSelected(d, stmt)
                           ELSE PlayerDefenseGamesSelected(d, stmt)
    ELSE IF career_totals THEN PlayerCareerSelected(d, stmt)
                          ELSE PlayerGamesSelected(d, stmt)

PlayerNameInputs == {<<"B">>, <<"B", "r", "e">>}

query_player_stats(player_name, stat_type, season, career_totals) ==
  LET stmt == QueryPlayerStatsSql(player_name, stat_type, season, career_totals)
  IN \E out \in query(stmt, QueryPlayerStatsSelected(db, stmt, stat_type, career_totals)) :
       /\ call' = [tool |-> "query_player_stats",
                   input |-> [player_name |-> player_name, stat_type |-> stat_type,
                              season |-> season, career_totals |-> career_totals]]
       /\ issued' = <<stmt>>
       /\ ret' = out
       /\ UNCHANGED http

---------------------------------------------------------------------------
\* saintsTools.query_leaderboards

\* Columns of the tables, as the statements of the file name them.
PlayersCols ==
  {"player_id", "player_name", "position", "college", "height", "weight", "birth_date",
   "seasons_text"}
StatCols(stat_type) ==
  {"player_id", "game_id", "team", "yds", "td"} \cup
    (CASE stat_type = "passing" -> {"att", "com", "int_thrown", "rtg"}
       [] stat_type = "rushing" -> {"att", "avg"}
       [] OTHER -> {"rec", "avg"})
\* What ORDER BY <name> resolves to in a statement over t, p and g: a result
\* column, or a column of exactly one of the joined tables.
JoinedCols(stat_type) ==
  ((StatCols(stat_type) \cup PlayersCols \cup GamesCols) \ {"player_id", "game_id"})
    \cup {"games"}
DefenseResultCols == {"player_name", "tkl", "tfl", "ff", "sacks", "int_count"}

LimitTail(scope) ==
  <<Sql("DESC LIMIT", scope, {}, {}), Ph("limit", "", "LIMIT", "limit", scope, {})>>
OrderBySortBy(sort_by, valid) ==
  <<Sql("ORDER BY", 0, {}, {}), Splice(sort_by, "sort_by", valid, "order", 0)>>

\* SELECT player_id FROM <tbl> WHERE team LIKE '%Saints%' OR team LIKE '%New Orleans%'
AllDefSub(tbl, scope) ==
  <<Select("player_id FROM", scope, {}, {}),
    [Sql(tbl, scope, {tbl}, {}) EXCEPT !.clause = "from"],
    Sql("WHERE", scope, {}, {}), teamLike(scope, {})>>

\* defense, career (lines 184-221)
LeaderDefenseCareerSql(sort_by, limit) ==
  Statement(
    <<Select("p.player_name, COALESCE(def.tkl, 0) as tkl, ..., COALESCE(sk.sacks, 0) as sacks, COALESCE(it.int_count, 0) as int_count FROM (",
          0, {}, {"p", "def", "sk", "it"})>>
    \o AllDefSub("player_defense", 4) \o <<Sql("UNION", 0, {}, {})>>
    \o AllDefSub("player_sacks", 5) \o <<Sql("UNION", 0, {}, {})>>
    \o AllDefSub("player_interceptions", 6)
    \o <<Sql(") all_def JOIN players p ON all_def.player_id = p.player_id",
             0, {"all_def", "p"}, {"all_def", "p"})>>
    \o DefenseSub("player_defense", "def", {}, 1)
    \o <<Sql(") def ON def.player_id = all_def.player_id", 0, {"def"}, {"def", "all_def"})>>
    \o DefenseSub("player_sacks", "sk", {}, 2)
    \o <<Sql(") sk ON sk.player_id = all_def.player_id", 0, {"sk"}, {"sk", "all_def"})>>
    \o DefenseSub("player_interceptions", "it", {}, 3)
    \o <<Sql(") it ON it.player_id = all_def.player_id", 0, {"it"}, {"it", "all_def"})>>
    \o OrderBySortBy(sort_by, DefenseResultCols \cup (PlayersCols \ {"player_id"}))
    \o LimitTail(0),
    <<Arg("limit", Num(limit))>>)

\* SELECT t.player_id, g.season, SUM(...) FROM <tbl> t JOIN games g ON ...
\* WHERE teamCondition AND g.game_type = 'regular' GROUP BY t.player_id, g.season
SeasonSub(tbl, scope) ==
  <<Select("t.player_id, g.season, SUM(...), 0, ... FROM", scope, {}, {"t", "g"}),
    [Sql(tbl, scope, {"t", "g"}, {"t", "g"}) EXCEPT !.clause = "from"],
    Sql("t JOIN games g ON t.game_id = g.game_id WHERE", scope, {}, {"t", "g"}),
    teamCondition(scope), And(scope), regularOnly(scope),
    Sql("GROUP BY t.player_id, g.season", scope, {}, {"t", "g"})>>

\* defense, season (lines 223-252)
LeaderDefenseSeasonSql(sort_by, limit) ==
  Statement(
    <<Select("p.player_name, combined.season, COALESCE(SUM(tkl), 0) as tkl, ..., COALESCE(SUM(sacks), 0) as sacks, COALESCE(SUM(int_count), 0) as int_count FROM (",
          0, {}, {"p", "combined"})>>
    \o SeasonSub("player_defense", 1) \o <<Sql("UNION ALL", 0, {}, {})>>
    \o SeasonSub("player_sacks", 2) \o <<Sql("UNION ALL", 0, {}, {})>>
    \o SeasonSub("player_interceptions", 3)
    \o <<Sql(") combined JOIN players p ON combined.player_id = p.player_id GROUP BY combined.player_id, combined.season",
             0, {"combined", "p"}, {"combined", "p"})>>
    \o OrderBySortBy(sort_by, DefenseResultCols \cup {"season"} \cup (PlayersCols \ {"player_id"}))
    \o LimitTail(0),
    <<Arg("limit", Num(limit))>>)

\* defense, single game: falls through to sacks (lines 254-264)
LeaderDefenseGameSql(limit) ==
  Statement(
    <<Select("p.player_name, g.game_date, g.opponent, g.season, t.sacks FROM",
          0, {}, {"p", "g", "t"}),
      [Sql("player_sacks", 0, {}, {}) EXCEPT !.clause = "from"],
      Sql("t JOIN players p ON t.player_id = p.player_id JOIN games g ON t.game_id = g.game_id",
          0, {"t", "p", "g"}, {"t", "p", "g"}),
      Sql("WHERE", 0, {}, {}), teamCondition(0), And(0), regularOnly(0),
      [Sql("ORDER BY t.sacks", 0, {}, {"t"}) EXCEPT !.clause = "order", !.col = "sacks"]>>
    \o LimitTail(0),
    <<Arg("limit", Num(limit))>>)

\* passing / rushing / receiving, career (lines 269-288) and season (290-309)
LeaderGroupedSql(stat_type, scope, sort_by, limit) ==
  Statement(
    <<Select(IF scope = "career"
               THEN "p.player_name, SUM(t.yds) as yds, SUM(t.td) as td, ..., COUNT(DISTINCT t.game_id) as games"
               ELSE "p.player_name, g.season, SUM(t.yds) as yds, SUM(t.td) as td, ..., COUNT(DISTINCT t.game_id) as games",
             0, {}, {"p", "t", "g"} \ (IF scope = "career" THEN {"g"} ELSE {}))>>
    \o FromStatTable(stat_type)
    \o <<Sql("WHERE", 0, {}, {}), teamCondition(0), And(0), regularOnly(0),
         Sql(IF scope = "career" THEN "GROUP BY t.player_id" ELSE "GROUP BY t.player_id, g.season",
             0, {}, {"t", "g"} \ (IF scope = "career" THEN {"g"} ELSE {}))>>
    \o OrderBySortBy(sort_by, JoinedCols(stat_type))
    \o LimitTail(0),
    <<Arg("limit", Num(limit))>>)

\* passing / rushing / receiving, single game (lines 311-328): ORDER BY t.${sort_by}
LeaderGameSql(stat_type, sort_by, limit) ==
  Statement(
    <<Select("p.player_name, g.game_date, g.opponent, g.season, t.yds, t.td, ...",
          0, {}, {"p", "g", "t"})>>
    \o FromStatTable(stat_type)
    \o <<Sql("WHERE", 0, {}, {}), teamCondition(0), And(0), regularOnly(0),
         Sql("ORDER BY t.", 0, {}, {"t"}),
         Splice(sort_by, "sort_by", StatCols(stat_type), "order", 0)>>
    \o LimitTail(0),
    <<Arg("limit", Num(limit))>>)

QueryLeaderboardsSql(stat_type, scope, sort_by, limit) ==
  IF stat_type = "defense"
    THEN CASE scope = "career" -> LeaderDefenseCareerSql(sort_by, limit)
           [] scope = "season" -> LeaderDefenseSeasonSql(sort_by, limit)
           [] OTHER -> LeaderDefenseGameSql(limit)
    ELSE IF scope \in {"career", "season"}
           THEN LeaderGroupedSql(stat_type, scope, sort_by, limit)
           ELSE LeaderGameSql(stat_type, sort_by, limit)

\* The column the statement orders by.
OrderCol(text) ==
  LET f == text[CHOOSE i \in DOMAIN text : text[i].clause = "order"]
  IN IF f.k = "id" THEN f.s ELSE f.col
\* ORDER BY <column> DESC LIMIT <n> over the rows S
TopRows(stmt, S) ==
  {Limited(stmt.sql, stmt.args, r) : r \in Descending(S, [x \in S |-> x[OrderCol(stmt.sql)].v])}

LeaderDefenseCareerSelected(d, stmt) ==
  LET all_def ==
        UNION {{l.player_id :
                  l \in {x \in d[ScopeTable(stmt.sql, n)] :
                           WhereHolds(stmt.sql, stmt.args, n, Joined(x, NoRow, NoRow))}} :
               n \in 4..6}
      Sub(n) == ScopeRows(d, stmt, n, JoinGames(d, ScopeTable(stmt.sql, n)))
      Of(n, pid) == {jr \in Sub(n) : jr.t.player_id = pid}
  IN TopRows(stmt,
       {[player_id |-> p.player_id, player_name |-> p.player_name,
         tkl |-> Coalesce(SumOrNull(Of(1, p.player_id), ValOf(Of(1, p.player_id))), 0),
         sacks |-> Coalesce(SumOrNull(Of(2, p.player_id), ValOf(Of(2, p.player_id))), 0),
         int_count |-> Coalesce(SumOrNull(Of(3, p.player_id), ValOf(Of(3, p.player_id))), 0)] :
        p \in {x \in d.players : x.player_id \in all_def}})

LeaderDefenseSeasonSelected(d, stmt) ==
  LET Sub(n) == ScopeRows(d, stmt, n, JoinGames(d, ScopeTable(stmt.sql, n)))
      Of(n, pid, season) == {jr \in Sub(n) : jr.t.player_id = pid /\ jr.g.season = season}
      combined == UNION {{<<jr.t.player_id, jr.g.season>> : jr \in Sub(n)} : n \in 1..3}
  IN TopRows(stmt,
       UNION {{[player_id |-> k[1], season |-> k[2], player_name |-> p.player_name,
                tkl |-> Coalesce(Num(SumOf(Of(1, k[1], k[2]), ValOf(Of(1, k[1], k[2])))), 0),
                sacks |-> Coalesce(Num(SumOf(Of(2, k[1], k[2]), ValOf(Of(2, k[1], k[2])))), 0),
                int_count |-> Coalesce(Num(SumOf(Of(3, k[1], k[2]), ValOf(Of(3, k[1], k[2])))), 0)] :
               p \in {x \in d.players : x.player_id = k[1]}} :
              k \in combined})

LeaderDefenseGameSelected(d, stmt) ==
  LET J == ScopeRows(d, stmt, 0, JoinPlayersGames(d, ScopeTable(stmt.sql, 0)))
  IN TopRows(stmt,
       {[player_id |-> jr.t.player_id, game_id |-> jr.t.game_id,
         player_name |-> jr.p.player_name, game_date |-> jr.g.game_date,
         opponent |-> jr.g.opponent, season |-> jr.g.season, sacks |-> Num(jr.t.val)] :
        jr \in J})

\* The grouped statement without its GROUP BY: one row per stat line.
LeaderGroupedByLine(d, stmt, scope) ==
  LET J == ScopeRows(d, stmt, 0, JoinPlayersGames(d, ScopeTable(stmt.sql, 0)))
  IN TopRows(stmt,
       {[player_id |-> jr.t.player_id, season |-> jr.g.season, game_id |-> jr.t.game_id,
         player_name |-> jr.p.player_name,
         yds |-> Num(jr.t.yds), td |-> Num(jr.t.td), games |-> Num(1)] : jr \in J})
\* One row per group: per player (career) or per player and season.
LeaderGroupedSelected(d, stmt, scope) ==
  LET J == ScopeRows(d, stmt, 0, JoinPlayersGames(d, ScopeTable(stmt.sql, 0)))
      KeyOf(jr) == IF scope = "career" THEN <<jr.t.player_id, 0>>
                                       ELSE <<jr.t.player_id, jr.g.season>>
      Of(k) == {jr \in J : KeyOf(jr) = k}
  IN TopRows(stmt,
       {[player_id |-> k[1], season |-> k[2],
         player_name |-> (CHOOSE jr \in Of(k) : TRUE).p.player_name,
         yds |-> SumOrNull(Of(k), YdsOf(Of(k))),
         td |-> SumOrNull(Of(k), TdOf(Of(k))),
         games |-> Num(GamesOf(Of(k)))] :
        k \in {KeyOf(jr) : jr \in J}})

LeaderGameSelected(d, stmt) ==
  LET J == ScopeRows(d, stmt, 0, JoinPlayersGames(d, ScopeTable(stmt.sql, 0)))
  IN TopRows(stmt, {LineRow(jr) : jr \in J})

QueryLeaderboardsSelected(d, stmt, stat_type, scope) ==
  IF stat_type = "defense"
    THEN CASE scope = "career" -> LeaderDefenseCareerSelected(d, stmt)
           [] scope = "season" -> LeaderDefenseSeasonSelected(d, stmt)
           [] OTHER -> LeaderDefenseGameSelected(d, stmt)
    ELSE IF scope \in {"career", "season"}
           THEN LeaderGroupedSelected(d, stmt, scope)
           ELSE LeaderGameSelected(d, stmt)

Scopes == {"career", "season", "game"}
\* sort_by is any string: column names, and a string that names no column
SortByInputs == {"yds", "td", "sacks", "bogus"}

query_leaderboards(stat_type, scope, sort_by, limit) ==
  LET stmt == QueryLeaderboardsSql(stat_type, scope, sort_by, limit)
  IN \E out \in query(stmt, QueryLeaderboardsSelected(db, stmt, stat_type, scope)) :
       /\ call' = [tool |-> "query_leaderboards",
                   input |-> [stat_type |-> stat_type, scope |-> scope, sort_by |-> sort_by,
                              limit |-> limit]]
       /\ issued' = <<stmt>>
       /\ ret' = out
       /\ UNCHANGED http

---------------------------------------------------------------------------
\* saintsTools.query_team_season

LiteralLimit(n) == [Cond("", {[op |-> "LIMIT", lit |-> Num(n)]}, 0, {}) EXCEPT !.clause = "limit"]
From(tbl, binds) == [Sql(tbl, 0, binds, {}) EXCEPT !.clause = "from"]

TeamStatsSql(season) ==
  Statement(
    <<Select("COALESCE(SUM(t.rush_att), 0) as rush_att, ..., COALESCE(SUM(t.total_points), 0) as total_points FROM",
          0, {}, {"t"}),
      From("team_game_stats", {"t", "g"}),
      Sql("t JOIN games g ON t.game_id = g.game_id WHERE", 0, {}, {"t", "g"}),
      Ph("season", "season", "=", "where", 0, {"g"}), And(0), teamCondition(0), And(0),
      regularOnly(0)>>,
    <<Arg("season", Num(season))>>)

RecordSql(season) ==
  Statement(
    <<Select("SUM(CASE WHEN result='W' THEN 1 ELSE 0 END) as wins, ... as losses, ... as ties FROM",
          0, {}, {}),
      From("games", {}), Sql("WHERE", 0, {}, {}),
      Ph("season", "season", "=", "where", 0, {}), And(0),
      Cond("game_type", {[op |-> "=", lit |-> Str("regular")]}, 0, {})>>,
    <<Arg("season", Num(season))>>)

\* An aggregate without GROUP BY selects exactly one row.
TeamStatsSelected(d, stmt) ==
  LET J == ScopeRows(d, stmt, 0, JoinGames(d, "team_game_stats"))
  IN {<<[total_points |->
           Coalesce(SumOrNull(J, [jr \in J |-> jr.t.total_points]), 0)]>>}
RecordSelected(d, stmt) ==
  LET S == {g \in d.games : WhereHolds(stmt.sql, stmt.args, 0, Joined(NoRow, g, NoRow))}
      Count(r) == IF S = {} THEN Null ELSE Num(Cardinality({g \in S : g.result = r}))
  IN {<<[wins |-> Count("W"), losses |-> Count("L"), ties |-> Count("T")]>>}

SeasonNumbers == {0, 2009, 2010}

query_team_season(season) ==
  LET s1 == TeamStatsSql(season)
      s2 == RecordSql(season)
  IN /\ call' = [tool |-> "query_team_season", input |-> [season |-> season]]
     /\ UNCHANGED http
     /\ \E teamStats \in query(s1, TeamStatsSelected(db, s1)) :
          IF teamStats = Thrown
            THEN issued' = <<s1>> /\ ret' = Thrown
            ELSE /\ issued' = <<s1, s2>>
                 /\ \E record \in query(s2, RecordSelected(db, s2)) :
                      ret' = IF record = Thrown THEN Thrown
                             ELSE [kind |-> "season", season |-> season,
                                   record |-> record.rows[1], stats |-> teamStats.rows[1]]

---------------------------------------------------------------------------
\* saintsTools.search_players and saintsTools.query_player_bio

\* The characters of the model's texts in code-point order (BINARY collation).
Alphabet ==
  <<" ", "A", "B", "C", "F", "N", "O", "S", "a", "c", "e", "h", "i", "l", "n", "o", "r",
    "s", "t", "u", "w">>
Rank(c) == CHOOSE i \in DOMAIN Alphabet : Alphabet[i] = c
RECURSIVE TextLeq(_, _)
TextLeq(a, b) ==
  IF a = <<>> THEN TRUE
  ELSE IF b = <<>> THEN FALSE
  ELSE IF Head(a) = Head(b) THEN TextLeq(Tail(a), Tail(b))
  ELSE Rank(Head(a)) < Rank(Head(b))
ByName(S) ==
  {f \in Perms(S) :
     \A i \in 1..(Cardinality(S) - 1) : TextLeq(f[i].player_name, f[i + 1].player_name)}

SearchPlayersSql(name, limit) ==
  Statement(
    <<Select("DISTINCT p.player_id, p.player_name, p.position, p.college, p.seasons_text FROM",
          0, {}, {"p"}),
      From("players", {"p"}), Sql("p WHERE", 0, {}, {}),
      Ph("name", "player_name", "LIKE", "where", 0, {"p"}),
      Sql("ORDER BY p.player_name", 0, {}, {"p"}), Sql("LIMIT", 0, {}, {}),
      Ph("limit", "", "LIMIT", "limit", 0, {})>>,
    <<Arg("name", Txt(Wrap(name))), Arg("limit", Num(limit))>>)

BioPlayersSql(player_name) ==
  Statement(
    <<Select("p.player_id, p.player_name, p.position, p.college, p.height, p.weight, p.birth_date, p.seasons_text FROM",
          0, {}, {"p"}),
      From("players", {"p"}), Sql("p WHERE", 0, {}, {}), playerCondition(0),
      Sql("ORDER BY p.player_name", 0, {}, {"p"}), LiteralLimit(5)>>,
    <<Arg("player_name", Txt(Wrap(player_name)))>>)

\* SELECT ... FROM players p WHERE p.player_name LIKE ? ORDER BY p.player_name LIMIT n
PlayersSelected(d, stmt) ==
  LET S == {p \in d.players : WhereHolds(stmt.sql, stmt.args, 0, Joined(NoRow, NoRow, p))}
  IN {Limited(stmt.sql, stmt.args, r) : r \in ByName(S)}

NameInputs == {<<>>, <<"B">>, <<"B", "r", "e">>}

search_players(name, limit) ==
  LET stmt == SearchPlayersSql(name, limit)
  IN \E out \in query(stmt, PlayersSelected(db, stmt)) :
       /\ call' = [tool |-> "search_players", input |-> [name |-> name, limit |-> limit]]
       /\ issued' = <<stmt>>
       /\ ret' = out
       /\ UNCHANGED http

\* WHERE player_id = ? OR LOWER(player_name) = LOWER(?) LIMIT 1
DraftSql(p) ==
  Statement(
    <<Select("season, round, pick FROM", 0, {}, {}), From("draft_picks", {}),
      Sql("WHERE", 0, {}, {}),
      Ph("player_id", "player_id", "=", "draft", 0, {}),
      Sql("OR LOWER(player_name) = LOWER(", 0, {}, {}),
      Ph("player_name", "player_name", "=", "draft", 0, {}),
      Sql(")", 0, {}, {}), LiteralLimit(1)>>,
    <<Arg("player_id", Num(p.player_id)), Arg("player_name", Txt(p.player_name))>>)

Lower(s) == [i \in DOMAIN s |-> Fold(s[i])]
\* draft.length > 0 ? draft[0] : null, for every row the statement may put first
DraftOf(d, stmt) ==
  LET i1 == CHOOSE i \in DOMAIN stmt.sql : stmt.sql[i].for = "player_id"
      i2 == CHOOSE i \in DOMAIN stmt.sql : stmt.sql[i].for = "player_name"
      S == {x \in d.draft_picks :
              \/ SqlEq(Num(x.player_id), Bound(stmt.sql, stmt.args, i1))
              \/ /\ Bound(stmt.sql, stmt.args, i2).t = "text"
                 /\ Lower(x.player_name) = Lower(Bound(stmt.sql, stmt.args, i2).v)}
  IN IF S = {} THEN {Null} ELSE {[t |-> "row", v |-> x.season] : x \in S}

query_player_bio(player_name) ==
  LET s1 == BioPlayersSql(player_name)
  IN /\ call' = [tool |-> "query_player_bio", input |-> [player_name |-> player_name]]
     /\ UNCHANGED http
     /\ \E players \in query(s1, PlayersSelected(db, s1)) :
          IF players = Thrown
            THEN issued' = <<s1>> /\ ret' = Thrown
            ELSE LET n == Len(players.rows)
                     ds == [i \in 1..n |-> DraftSql(players.rows[i])]
                 IN /\ issued' = <<s1>> \o ds
                    /\ \E draft \in [1..n -> UNION {DraftOf(db, ds[i]) : i \in 1..n}] :
                         /\ \A i \in 1..n : draft[i] \in DraftOf(db, ds[i])
                         /\ ret' = [kind |-> "results",
                                    results |->
                                      [i \in 1..n |->
                                         [player_id |-> players.rows[i].player_id,
                                          player_name |-> players.rows[i].player_name,
                                          draft |-> draft[i]]]]

---------------------------------------------------------------------------
\* saintsTools.query_scoring

\* SELECT sp.quarter, ... FROM scoring_plays sp WHERE sp.game_id = ? ORDER BY sp.id
ScoringPlaysSql(gid) ==
  Statement(
    <<Select("sp.quarter, sp.team, sp.description, sp.saints_score, sp.opp_score FROM",
          0, {}, {"sp"}),
      From("scoring_plays", {"sp"}), Sql("sp WHERE", 0, {}, {}),
      Ph("game_id", "game_id", "=", "where", 0, {"sp"}),
      Sql("ORDER BY sp.id", 0, {}, {"sp"})>>,
    <<Arg("game_id", Str(gid))>>)

\* The same plays, had the statement ordered them by quarter.
ScoringPlaysByQuarter(d, stmt) ==
  LET S == {sp \in d.scoring_plays :
              WhereHolds(stmt.sql, stmt.args, 0, Joined(sp, NoRow, NoRow))}
  IN Ascending(S, [sp \in S |-> sp.quarter])
ScoringPlaysSelected(d, stmt) ==
  LET S == {sp \in d.scoring_plays :
              WhereHolds(stmt.sql, stmt.args, 0, Joined(sp, NoRow, NoRow))}
  IN Ascending(S, [sp \in S |-> sp.id])

\* SELECT ... FROM games g ${where} ORDER BY g.game_date DESC LIMIT 1
ScoringGamesSql(season, opponent) ==
  LET c1 == IF TruthyNum(season) THEN <<  <<Ph("season", "season", "=", "where", 0, {"g"})>>  >> ELSE <<>>
      a1 == IF TruthyNum(season) THEN <<Arg("season", Num(The(season)))>> ELSE <<>>
      c2 == IF TruthyTxt(opponent) THEN <<  <<Ph("opponent", "opponent", "LIKE", "where", 0, {"g"})>>  >> ELSE <<>>
      a2 == IF TruthyTxt(opponent) THEN <<Arg("opponent", Txt(Wrap(The(opponent))))>> ELSE <<>>
      conditions == c1 \o c2
      where == IF Len(conditions) > 0
                 THEN <<Sql("WHERE", 0, {}, {})>> \o JoinFrags(conditions, Sql("AND", 0, {}, {}))
                 ELSE <<>>
  IN Statement(
       <<Select("g.game_id, g.game_date, g.opponent, g.saints_score, g.opponent_score FROM",
             0, {}, {"g"}),
         From("games", {"g"}), Sql("g", 0, {}, {})>>
         \o where
         \o <<Sql("ORDER BY g.game_date DESC", 0, {}, {"g"}), LiteralLimit(1)>>,
       a1 \o a2)

NoMatchingGame == [kind |-> "error", error |-> "No matching game found"]

GameIdInputs == {{}, {""}, {"g1"}, {"g2"}}

query_scoring(game_id, season, opponent) ==
  /\ call' = [tool |-> "query_scoring",
              input |-> [game_id |-> game_id, season |-> season, opponent |-> opponent]]
  /\ UNCHANGED http
  /\ IF TruthyStr(game_id)
       THEN LET stmt == ScoringPlaysSql(The(game_id))
            IN \E out \in query(stmt, ScoringPlaysSelected(db, stmt)) :
                 issued' = <<stmt>> /\ ret' = out
       ELSE LET s1 == ScoringGamesSql(season, opponent)
            IN \E games \in query(s1, GamesSelected(db, s1)) :
                 IF games = Thrown THEN issued' = <<s1>> /\ ret' = Thrown
                 ELSE IF Len(games.rows) = 0 THEN issued' = <<s1>> /\ ret' = NoMatchingGame
                 ELSE LET gid == games.rows[1].game_id
                          s2 == ScoringPlaysSql(gid)
                      IN /\ issued' = <<s1, s2>>
                         /\ \E plays \in query(s2, ScoringPlaysSelected(db, s2)) :
                              ret' = IF plays = Thrown THEN Thrown
                                     ELSE [kind |-> "game", game |-> games.rows[1],
                                           scoring_plays |-> plays.rows]

---------------------------------------------------------------------------
\* saintsTools.query_records

SpliceColumn(stat_column, stat_type, clause) ==
  Splice(stat_column, "stat_column", StatCols(stat_type) \ {"player_id", "game_id", "team"},
         clause, 0)

RecordsSeasonSql(stat_type, stat_column, min_value) ==
  Statement(
    <<Select("p.player_name, g.season, SUM(t.", 0, {}, {"p", "g", "t"}),
      SpliceColumn(stat_column, stat_type, "select"),
      Sql(") as total, COUNT(DISTINCT t.game_id) as games", 0, {}, {"t"})>>
    \o FromStatTable(stat_type)
    \o <<Sql("WHERE", 0, {}, {}), teamCondition(0), And(0), regularOnly(0),
         Sql("GROUP BY t.player_id, g.season", 0, {}, {"t", "g"}),
         Sql("HAVING", 0, {}, {}), Ph("min_value", "total", ">=", "having", 0, {}),
         [Sql("ORDER BY total DESC", 0, {}, {}) EXCEPT !.clause = "order", !.col = "total"]>>,
    <<Arg("min_value", Num(min_value))>>)

RecordsGameSql(stat_type, stat_column, min_value) ==
  Statement(
    <<Select("p.player_name, g.game_date, g.opponent, g.season, t.", 0, {}, {"p", "g", "t"}),
      SpliceColumn(stat_column, stat_type, "select"),
      Sql("as value", 0, {}, {})>>
    \o FromStatTable(stat_type)
    \o <<Sql("WHERE", 0, {}, {}), teamCondition(0), And(0), regularOnly(0), And(0),
         Sql("t.", 0, {}, {"t"}), SpliceColumn(stat_column, stat_type, "cond"),
         Ph("min_value", stat_column, ">=", "where", 0, {"t"}),
         Sql("ORDER BY t.", 0, {}, {"t"}), SpliceColumn(stat_column, stat_type, "order"),
         Sql("DESC", 0, {}, {})>>,
    <<Arg("min_value", Num(min_value))>>)

\* The column the select list takes from the stat line.
SelectCol(text) == text[CHOOSE i \in DOMAIN text : text[i].clause = "select"].s
StatVal(jr, col) == IF col \in DOMAIN jr.t THEN jr.t[col] ELSE 0
\* The grouped statement without its HAVING clause.
HavingAny(text, args, v) == TRUE
HavingHolds(text, args, v) ==
  \A i \in DOMAIN text :
    text[i].clause = "having" => \E a \in text[i].alts : TestOp(v, a.op, Bound(text, args, i))

RecordsSeasonSelected(d, stmt) ==
  LET J == ScopeRows(d, stmt, 0, JoinPlayersGames(d, ScopeTable(stmt.sql, 0)))
      Of(k) == {jr \in J : <<jr.t.player_id, jr.g.season>> = k}
      G == {[player_id |-> k[1], season |-> k[2],
             player_name |-> (CHOOSE jr \in Of(k) : TRUE).p.player_name,
             total |-> Num(SumOf(Of(k), [jr \in Of(k) |-> StatVal(jr, SelectCol(stmt.sql))])),
             games |-> Num(GamesOf(Of(k)))] :
            k \in {<<jr.t.player_id, jr.g.season>> : jr \in J}}
      S == {r \in G : HavingHolds(stmt.sql, stmt.args, r.total)}
  IN Descending(S, [x \in S |-> x[OrderCol(stmt.sql)].v])

RecordsGameSelected(d, stmt) ==
  LET J == ScopeRows(d, stmt, 0, JoinPlayersGames(d, ScopeTable(stmt.sql, 0)))
      S == {[player_id |-> jr.t.player_id, game_id |-> jr.t.game_id,
             player_name |-> jr.p.player_name, game_date |-> jr.g.game_date,
             opponent |-> jr.g.opponent, season |-> jr.g.season,
             value |-> Num(StatVal(jr, SelectCol(stmt.sql))),
             by |-> StatVal(jr, OrderCol(stmt.sql))] : jr \in J}
  IN Descending(S, [x \in S |-> x.by])

StatColumnInputs == {"yds", "td", "bogus"}
MinValueInputs == 1..3

query_records(stat_type, stat_column, min_value, scope) ==
  LET stmt == IF scope = "season" THEN RecordsSeasonSql(stat_type, stat_column, min_value)
                                  ELSE RecordsGameSql(stat_type, stat_column, min_value)
      R == IF scope = "season" THEN RecordsSeasonSelected(db, stmt)
                               ELSE RecordsGameSelected(db, stmt)
  IN \E out \in query(stmt, R) :
       /\ call' = [tool |-> "query_records",
                   input |-> [stat_type |-> stat_type, stat_column |-> stat_column,
                              min_value |-> min_value, scope |-> scope]]
       /\ issued' = <<stmt>>
       /\ ret' = out
       /\ UNCHANGED http

---------------------------------------------------------------------------
\* app/api/leaders/route.ts: GET

\* JavaScript values.
Undefined == [js |-> "undefined"]
JsNull == [js |-> "null"]
JsStr(s) == [js |-> "string", v |-> s]
JsNum(n) == [js |-> "number", v |-> n]
JsArr(a) == [js |-> "array", v |-> a]
JsObj(id) == [js |-> "object", id |-> id]
\* a function: its name and length properties, and where it comes from
JsFn(name, length, of) == [js |-> "function", name |-> name, length |-> length, of |-> of]

\* The nine imported fetch functions, (limit?: number) => Promise<unknown[]>
FetcherName(scope, category) ==
  CASE scope = "career" /\ category = "passing" -> "getCareerPassingLeaders"
    [] scope = "career" /\ category = "rushing" -> "getCareerRushingLeaders"
    [] scope = "career" /\ category = "receiving" -> "getCareerReceivingLeaders"
    [] scope = "season" /\ category = "passing" -> "getSeasonPassingRecords"
    [] scope = "season" /\ category = "rushing" -> "getSeasonRushingRecords"
    [] scope = "season" /\ category = "receiving" -> "getSeasonReceivingRecords"
    [] scope = "game" /\ category = "passing" -> "getSingleGamePassingLeaders"
    [] scope = "game" /\ category = "rushing" -> "getSingleGameRushingLeaders"
    [] OTHER -> "getSingleGameReceivingLeaders"
Fetcher(scope, category) == JsFn(FetcherName(scope, category), 1, "queries")

\* Properties every object inherits from Object.prototype.
ObjectPrototype(key) ==
  CASE key = "constructor" -> JsFn("Object", 1, "builtin")
    [] key = "toString" -> JsFn("toString", 0, "builtin")
    [] key = "valueOf" -> JsFn("valueOf", 0, "builtin")
    [] key = "hasOwnProperty" -> JsFn("hasOwnProperty", 1, "builtin")
    [] OTHER -> Undefined
\* Properties every function inherits from Function.prototype.
FunctionPrototype(key) ==
  CASE key = "constructor" -> JsFn("Function", 1, "builtin")
    [] key = "toString" -> JsFn("Function.prototype.toString", 0, "builtin")
    [] key = "call" -> JsFn("call", 1, "builtin")
    [] OTHER -> ObjectPrototype(key)

\* Property lookup, had every inner table of fetchers a defense entry too.
GetWithDefense(v, key) ==
  CASE v.js = "object" /\ v.id = "fetchers" ->
         IF key \in {"career", "season", "game"} THEN JsObj(key) ELSE ObjectPrototype(key)
    [] v.js = "object" /\ v.id \in {"career", "season", "game"} ->
         IF key \in {"passing", "rushing", "receiving", "defense"} THEN Fetcher(v.id, key)
         ELSE ObjectPrototype(key)
    [] v.js = "function" ->
         IF key = "name" THEN JsStr(v.name)
         ELSE IF key = "length" THEN JsNum(v.length)
         ELSE FunctionPrototype(key)
    [] OTHER -> Undefined

\* v[key]: own properties first, then the prototype chain.  The fetchers
\* literal and its three inner literals are plain objects.
Get(v, key) ==
  CASE v.js = "object" /\ v.id = "fetchers" ->
         IF key \in {"career", "season", "game"} THEN JsObj(key)
         ELSE IF key = "__proto__" THEN JsObj("Object.prototype")
         ELSE ObjectPrototype(key)
    [] v.js = "object" /\ v.id \in {"career", "season", "game"} ->
         IF key \in {"passing", "rushing", "receiving"} THEN Fetcher(v.id, key)
         ELSE IF key = "__proto__" THEN JsObj("Object.prototype")
         ELSE ObjectPrototype(key)
    [] v.js = "object" /\ v.id = "Object.prototype" ->
         IF key = "__proto__" THEN JsNull ELSE ObjectPrototype(key)
    [] v.js = "function" ->
         IF key = "name" THEN JsStr(v.name)
         ELSE IF key = "length" THEN JsNum(v.length)
         ELSE FunctionPrototype(key)
    [] OTHER -> Undefined

\* a?.[key]
OptionalGet(v, key) == IF v.js \in {"undefined", "null"} THEN Undefined ELSE Get(v, key)

Truthy(v) ==
  CASE v.js \in {"undefined", "null"} -> FALSE
    [] v.js = "string" -> v.v # ""
    [] v.js = "number" -> v.v # 0
    [] OTHER -> TRUE

\* searchParams.get(name) ?? dflt: an absent parameter (the empty set) reads
\* as null
OrDefault(param, dflt) == IF param = {} THEN dflt ELSE The(param)

\* What the fetch functions may resolve with.
LeaderData == {<<>>, <<"row1">>, <<"row1", "row2">>}

\* The outcomes of `await fetcher(limit)`: the value it yields, or an
\* exception.  fetcher is called as a bare function (this is undefined).
Exception == [js |-> "exception"]
CallOutcomes(fetcher, limit) ==
  IF fetcher.js # "function" THEN {Exception}
  ELSE IF fetcher.of = "queries" THEN {JsArr(a) : a \in LeaderData} \cup {Exception}
  ELSE CASE fetcher.name = "Object" -> {JsNum(limit)}
         [] fetcher.name = "toString" -> {JsStr("[object Undefined]")}
         [] fetcher.name = "Function" -> {JsFn("anonymous", 0, "builtin")}
         [] OTHER -> {Exception}

\* NextResponse.json(body, {status})
Response(status, body) == [status |-> status, body |-> body]
InvalidScopeOrCategory == Response(400, [error |-> "Invalid scope or category"])
ServerError == Response(500, [error |-> "Internal Server Error"])
\* A value JSON cannot serialize either fails the response or leaves it empty.
JsonResponses(data) ==
  IF data.js \in {"function", "undefined"} THEN {ServerError, Response(200, Undefined)}
  ELSE {Response(200, data)}

ScopeParams ==
  {{}} \cup
  {{s} : s \in {"", "career", "season", "game", "constructor", "toString", "__proto__", "bogus"}}
CategoryParams ==
  {{}} \cup
  {{s} : s \in {"", "passing", "rushing", "receiving", "defense", "constructor", "toString",
                "name", "length", "bogus"}}

GET(scopeParam, categoryParam) ==
  LET scope == OrDefault(scopeParam, "career")
      category == OrDefault(categoryParam, "passing")
      fetcher == OptionalGet(Get(JsObj("fetchers"), scope), category)
  IN /\ call' = [tool |-> "GET", scope |-> scopeParam, category |-> categoryParam]
     /\ ret' = [kind |-> "none"]
     /\ UNCHANGED db
     /\ IF ~Truthy(fetcher)
          THEN issued' = <<>> /\ http' = InvalidScopeOrCategory
          ELSE /\ issued' = <<[called |-> fetcher, limit |-> 50]>>
               /\ \E data \in CallOutcomes(fetcher, 50) :
                    IF data = Exception THEN http' = ServerError
                    ELSE http' \in JsonResponses(data)

---------------------------------------------------------------------------
\* The game page (app/games/[id]/page.tsx) splits the stat lines of a game
\* into those of the Saints and those of the opponent.

\* s.includes(sub)
includes(s, sub) ==
  \E i \in 0..(Len(s) - Len(sub)) : SubSeq(s, i + 1, i + Len(sub)) = sub
\* team.includes("Saints") || team.includes("New Orleans")
isSaintsTeam(team) ==
  \/ includes(team, <<"S", "a", "i", "n", "t", "s">>)
  \/ includes(team, <<"N", "e", "w", " ", "O", "r", "l", "e", "a", "n", "s">>)

---------------------------------------------------------------------------
\* db.ts called directly: query() and queryOne(), with any number of calls
\* under way.  A call runs to its await in one step; it resumes when the
\* promise it waits for settles.

\* The execute of a statement rejects with one of these errors
ExecuteErrors == {"SQLITE_ERROR", "fetch failed"}
Rejected(e) == [kind |-> "throw", error |-> e]
\* What client.execute({sql, args}) settles with: a result with rows, or an error.
execute(d, stmt) ==
  {Rejected(e) : e \in ExecuteErrors} \cup (query(stmt, GamesSelected(d, stmt)) \ {Thrown})

\* The statements of the direct calls: some with no row, with one and with more.
DirectStatements ==
  {QueryGamesSql({2009}, {}, {}, {}, 2), QueryGamesSql({2010}, {}, {}, {}, 2),
   QueryGamesSql({}, {}, {"W"}, {"preseason"}, 2)}

NotYet == [kind |-> "pending"]
\* query(sql, args) up to its await: getDb().execute({sql, args}),
\* for itself (fn = "query") or on behalf of queryOne (fn = "queryOne").
queryStart(fn, stmt) ==
  /\ Len(calls) < MaxCalls
  /\ getDb
  /\ calls' = Append(calls, [fn |-> fn, stmt |-> stmt, on |-> _db', executes |-> 1,
                             pc |-> "execute", result |-> NotYet, out |-> NotYet])
  /\ UNCHANGED <<db, call, issued, ret, http, pages>>

\* return result.rows, or the exception of the await
queryReturns(result) == result
\* The execute of call i settles and query() resumes: it throws what the
\* await threw, or returns result.rows.  A call of query() is over; a call
\* of queryOne() waits for this outcome.
executeSettles(i) ==
  /\ calls[i].pc = "execute"
  /\ \E result \in execute(db, calls[i].stmt) :
       calls' = [calls EXCEPT ![i].result = result,
                              ![i].pc = IF calls[i].fn = "query" THEN "done" ELSE "queryOne",
                              ![i].out = IF calls[i].fn = "query" THEN queryReturns(result)
                                         ELSE NotYet]
  /\ db' \in TablesAfter(db, <<calls[i].stmt>>)
  /\ UNCHANGED <<call, issued, ret, http, _db, created, pages>>

\* queryOne(), had it caught the exception and answered null.
queryOneCatches(rows) ==
  IF rows.kind = "throw" \/ Len(rows.rows) = 0 THEN [kind |-> "null"]
  ELSE [kind |-> "row", row |-> rows.rows[1]]
\* queryOne(), had it taken the last row.
queryOneLast(rows) ==
  IF rows.kind = "throw" THEN rows
  ELSE IF Len(rows.rows) > 0 THEN [kind |-> "row", row |-> rows.rows[Len(rows.rows)]]
  ELSE [kind |-> "null"]
\* return rows[0] ?? null, or the exception of the await
queryOneReturns(rows) ==
  IF rows.kind = "throw" THEN rows
  ELSE IF Len(rows.rows) > 0 THEN [kind |-> "row", row |-> rows.rows[1]]
  ELSE [kind |-> "null"]
\* queryOne() of call i resumes with the outcome of its query().
queryOneResumes(i) ==
  /\ calls[i].pc = "queryOne"
  /\ calls' = [calls EXCEPT ![i].pc = "done",
                            ![i].out = queryOneReturns(queryReturns(calls[i].result))]
  /\ UNCHANGED <<db, call, issued, ret, http, _db, created, pages>>

InitDb ==
  /\ db = EmptyDb
  /\ call = NoCall
  /\ issued = <<>>
  /\ ret = [kind |-> "none"]
  /\ http = NoHttp
  /\ _db = NoClient
  /\ created = 0
  /\ calls = <<>>
  /\ PagesUnused

NextDb ==
  \/ \E fn \in {"query", "queryOne"}, stmt \in DirectStatements : queryStart(fn, stmt)
  \/ \E i \in DOMAIN calls : executeSettles(i)
  \/ \E i \in DOMAIN calls : queryOneResumes(i)

SpecDb == InitDb /\ [][NextDb]_vars

---------------------------------------------------------------------------
\* The caller has the result (or the exception) of the call or request; the
\* next one starts from scratch: nothing is kept between calls.
Return ==
  /\ call # NoCall
  /\ call' = NoCall
  /\ issued' = <<>>
  /\ ret' = [kind |-> "none"]
  /\ http' = NoHttp
  /\ UNCHANGED <<db, _db, created, calls, pages>>

\* A tool is called when no call is under way.
Idle == call = NoCall
\* Every tool starts with a query(), and query() with getDb().
Connect == getDb /\ UNCHANGED <<calls, pages>>

Next ==
  \/ Return
  \/ Idle /\ Connect /\ \E season \in SeasonInputs, opponent \in OpponentInputs, result \in ResultInputs,
        game_type \in GameTypeInputs, limit \in LimitInputs :
       query_games(season, opponent, result, game_type, limit) /\ Executed
  \/ Idle /\ Connect /\ \E player_name \in PlayerNameInputs, stat_type \in StatTypes,
               season \in SeasonInputs, career_totals \in BOOLEAN :
       query_player_stats(player_name, stat_type, season, career_totals) /\ Executed
  \/ Idle /\ Connect /\ \E stat_type \in StatTypes, scope \in Scopes, sort_by \in SortByInputs,
               limit \in LimitInputs :
       query_leaderboards(stat_type, scope, sort_by, limit) /\ Executed
  \/ Idle /\ Connect /\ \E season \in SeasonNumbers : query_team_season(season) /\ Executed
  \/ Idle /\ Connect /\ \E name \in NameInputs, limit \in LimitInputs : search_players(name, limit) /\ Executed
  \/ Idle /\ Connect /\ \E player_name \in NameInputs : query_player_bio(player_name) /\ Executed
  \/ Idle /\ Connect /\ \E game_id \in GameIdInputs, season \in SeasonInputs, opponent \in OpponentInputs :
       query_scoring(game_id, season, opponent) /\ Executed
  \/ Idle /\ Connect /\ \E stat_type \in OffenseTypes, stat_column \in StatColumnInputs,
               min_value \in MinValueInputs, scope \in {"game", "season"} :
       query_records(stat_type, stat_column, min_value, scope) /\ Executed

Spec == Init /\ [][Next]_vars

\* The leaders endpoint alone: requests against one database.
InitLeaders ==
  /\ db = EmptyDb
  /\ call = NoCall
  /\ issued = <<>>
  /\ ret = [kind |-> "none"]
  /\ http = NoHttp
  /\ _db = NoClient
  /\ created = 0
  /\ calls = <<>>
  /\ PagesUnused

NextLeaders ==
  \/ Return
  \/ Idle /\ \E scopeParam \in ScopeParams, categoryParam \in CategoryParams :
       GET(scopeParam, categoryParam) /\ UNCHANGED <<_db, created, calls, pages>>

SpecLeaders == InitLeaders /\ [][NextLeaders]_vars

---------------------------------------------------------------------------
\* StatsPage (components/stat-badge.tsx): the leaderboards page.  Its state is
\* scope, category, data and loading; an effect with the dependencies
\* [scope, category] fetches the leaders of the selection.  The effect has no
\* cleanup: a fetch that was started is never cancelled, and its callbacks
\* run whenever it settles.

\* The number of fetches a run of the page starts.
MaxFetches == 3
Categories == {"passing", "rushing", "receiving"}
\* The JSON the endpoint answers a request for (scope, category) with.
LeadersOf(scope, category) == [of |-> <<scope, category>>]
\* useState<LeaderRow[]>([])
NoData == [of |-> <<>>]
\* The page after its first render: the initial values of the four states,
\* and the effect of the mount still to run.  requests lists the fetches
\* started, each pending, ok (resolved and parsed) or failed.
FirstRender ==
  [used |-> TRUE, scope |-> "career", category |-> "passing", data |-> NoData,
   loading |-> TRUE, effect |-> TRUE, requests |-> <<>>]

\* The effect runs after a render whose scope or category changed (and after
\* the mount): setLoading(true), and the fetch starts.
useEffect ==
  /\ statsPage.used /\ statsPage.effect
  /\ statsPage' = [statsPage EXCEPT
       !.loading = TRUE,
       !.effect = FALSE,
       !.requests = Append(@, [scope |-> statsPage.scope, category |-> statsPage.category,
                               state |-> "pending"])]
  /\ UNCHANGED <<server, upload, page, statTable>>

\* A change of state re-renders, and the effect is due when a dependency
\* changed; setting a state to the value it has does nothing.
setScope(s) ==
  /\ statsPage.used /\ ~statsPage.effect
  /\ Len(statsPage.requests) < MaxFetches
  /\ s # statsPage.scope
  /\ statsPage' = [statsPage EXCEPT !.scope = s, !.effect = TRUE]
  /\ UNCHANGED <<server, upload, page, statTable>>
setCategory(c) ==
  /\ statsPage.used /\ ~statsPage.effect
  /\ Len(statsPage.requests) < MaxFetches
  /\ c # statsPage.category
  /\ statsPage' = [statsPage EXCEPT !.category = c, !.effect = TRUE]
  /\ UNCHANGED <<server, upload, page, statTable>>

\* .then((r) => r.json()).then((d) => { setData(d); setLoading(false); })
fetchResolves(i) ==
  /\ statsPage.used
  /\ i \in DOMAIN statsPage.requests
  /\ statsPage.requests[i].state = "pending"
  /\ statsPage' = [statsPage EXCEPT
       !.data = LeadersOf(statsPage.requests[i].scope, statsPage.requests[i].category),
       !.loading = FALSE,
       !.requests[i].state = "ok"]
  /\ UNCHANGED <<server, upload, page, statTable>>
\* .catch(() => setLoading(false))
fetchRejects(i) ==
  /\ statsPage.used
  /\ i \in DOMAIN statsPage.requests
  /\ statsPage.requests[i].state = "pending"
  /\ statsPage' = [statsPage EXCEPT !.loading = FALSE, !.requests[i].state = "failed"]
  /\ UNCHANGED <<server, upload, page, statTable>>

InitStats ==
  /\ db = EmptyDb
  /\ ServerIdle
  /\ statsPage = FirstRender
  /\ upload = Unused
  /\ page = Unused
  /\ statTable = Unused
NextStats ==
  \/ useEffect
  \/ \E s \in Scopes : setScope(s)
  \/ \E c \in Categories : setCategory(c)
  \/ \E i \in 1..MaxFetches : fetchResolves(i)
  \/ \E i \in 1..MaxFetches : fetchRejects(i)
SpecStats == InitStats /\ [][NextStats]_vars

---------------------------------------------------------------------------
\* The upload script (scripts/upload-to-turso): the statements of the dump are
\* sent in batches of BATCH_SIZE; when a batch fails, its statements are
\* sent one by one.  The script is sequential: a step runs from one await to
\* the next.

\* The greatest number of statements of a dump.
MaxStatements == 21
BATCH_SIZE == 20
\* String(innerErr) of a statement that fails on its own
AlreadyExists == <<"x", " ", "a", "l", "r", "e", "a", "d", "y", " ", "e", "x", "i", "s", "t", "s">>
InTransaction == <<"i", "n", " ", "T", "R", "A", "N", "S", "A", "C", "T", "I", "O", "N">>
LowerCaseTransaction == <<"i", "n", " ", "t", "r", "a", "n", "s", "a", "c", "t", "i", "o", "n">>
ErrorMessages == {AlreadyExists, InTransaction, LowerCaseTransaction}
\* Skip expected errors like "table already exists"
Expected(msg) ==
  includes(msg, <<"a", "l", "r", "e", "a", "d", "y", " ", "e", "x", "i", "s", "t", "s">>)
    \/ includes(msg, <<"T", "R", "A", "N", "S", "A", "C", "T", "I", "O", "N">>)
\* statements.slice(i, i + BATCH_SIZE), as the positions of the statements
slice(n, i) == {x \in 1..n : i < x /\ x <= i + BATCH_SIZE}
\* The script before the loop: statements has n elements.  batched and single
\* count how often each statement was sent in a batch and on its own,
\* failedBatches are the starts of the batches that failed, and failed counts,
\* for every message, the statements that failed on their own with it.
BeforeLoop(n) ==
  [used |-> TRUE, pc |-> "loop", statements |-> n, i |-> 0, at |-> 0,
   executed |-> 0, errors |-> 0,
   batched |-> [x \in 1..n |-> 0], single |-> [x \in 1..n |-> 0],
   failedBatches |-> {}, failed |-> [msg \in ErrorMessages |-> 0]]
\* for (let i = ...; i < statements.length; ...): the test of the loop at i,
\* and db.batch(...) of the batch at i if it passes.
batchAt(u, i) ==
  IF i < u.statements
    THEN [u EXCEPT !.pc = "batch", !.i = i,
                   !.batched = [x \in 1..u.statements |->
                                  IF x \in slice(u.statements, i) THEN @[x] + 1 ELSE @[x]]]
    ELSE [u EXCEPT !.pc = "done", !.i = i]
\* for (const sql of batch): db.execute(...) of the statement after position
\* at, or the next turn of the outer loop when the batch is through.
executeAfter(u, at) ==
  IF at + 1 \in slice(u.statements, u.i)
    THEN [u EXCEPT !.pc = "execute", !.at = at + 1, !.single[at + 1] = @ + 1]
    ELSE batchAt(u, u.i + BATCH_SIZE)

loopStarts ==
  /\ upload.used /\ upload.pc = "loop"
  /\ upload' = batchAt(upload, 0)
  /\ UNCHANGED <<server, statsPage, page, statTable>>
\* await db.batch(...) returns: executed += batch.length
batchSucceeds ==
  /\ upload.used /\ upload.pc = "batch"
  /\ upload' = batchAt([upload EXCEPT
                          !.executed = @ + Cardinality(slice(upload.statements, upload.i))],
                       upload.i + BATCH_SIZE)
  /\ UNCHANGED <<server, statsPage, page, statTable>>
\* await db.batch(...) throws: try the statements of the batch individually
batchFails ==
  /\ upload.used /\ upload.pc = "batch"
  /\ upload' = executeAfter([upload EXCEPT !.failedBatches = @ \cup {upload.i}], upload.i)
  /\ UNCHANGED <<server, statsPage, page, statTable>>
\* await db.execute(...) returns: executed++
executeSucceeds ==
  /\ upload.used /\ upload.pc = "execute"
  /\ upload' = executeAfter([upload EXCEPT !.executed = @ + 1], upload.at)
  /\ UNCHANGED <<server, statsPage, page, statTable>>
\* The catch of a statement, had it left executed alone.
caughtNotExecuted(u, msg) ==
  [u EXCEPT !.errors = IF ~Expected(msg) THEN @ + 1 ELSE @]
\* catch (innerErr): errors++ unless the message is expected; executed++
caught(u, msg) ==
  [u EXCEPT !.errors = IF ~Expected(msg) THEN @ + 1 ELSE @, !.executed = @ + 1]
\* await db.execute(...) throws
executeFails(msg) ==
  /\ upload.used /\ upload.pc = "execute"
  /\ upload' = executeAfter(
       caught([upload EXCEPT !.failed[msg] = @ + 1], msg), upload.at)
  /\ UNCHANGED <<server, statsPage, page, statTable>>

InitUpload ==
  /\ db = EmptyDb
  /\ ServerIdle
  /\ upload \in {BeforeLoop(n) : n \in 0..MaxStatements}
  /\ statsPage = Unused
  /\ page = Unused
  /\ statTable = Unused
NextUpload ==
  \/ loopStarts
  \/ batchSucceeds
  \/ batchFails
  \/ executeSucceeds
  \/ \E msg \in ErrorMessages : executeFails(msg)
\* The script runs on: every await settles.
SpecUpload == InitUpload /\ [][NextUpload]_vars /\ WF_vars(NextUpload)

---------------------------------------------------------------------------
\* The detail pages (app/games/[id]/page.tsx, app/seasons/[year]/page.tsx):
\* server components that await the functions of lib/queries.  A step runs
\* from one await to the next; the queries of a Promise.all are all issued
\* before the first of them settles, and settle in any order.

\* parseInt(str, 10): the value of the longest prefix of str that is an
\* optional sign and decimal digits, after leading blanks; NaN if that prefix
\* has no digit.
Digits == {"0", "1", "2", "3", "4", "5", "6", "7", "8", "9"}
DigitValue ==
  ("0" :> 0) @@ ("1" :> 1) @@ ("2" :> 2) @@ ("3" :> 3) @@ ("4" :> 4) @@
  ("5" :> 5) @@ ("6" :> 6) @@ ("7" :> 7) @@ ("8" :> 8) @@ ("9" :> 9)
NaN == [nan |-> TRUE]
Number(n) == [nan |-> FALSE, v |-> n]
isNaN(x) == x.nan
RECURSIVE SkipBlanks(_)
SkipBlanks(str) ==
  IF str # <<>> /\ Head(str) = " " THEN SkipBlanks(Tail(str)) ELSE str
\* The value of the digits str starts with, after acc; none is -1.
RECURSIVE DigitsValue(_, _)
DigitsValue(str, acc) ==
  IF str # <<>> /\ Head(str) \in Digits
    THEN DigitsValue(Tail(str), (IF acc < 0 THEN 0 ELSE acc) * 10 + DigitValue[Head(str)])
    ELSE acc
parseInt(str) ==
  LET s == SkipBlanks(str)
      signed == s # <<>> /\ Head(s) \in {"-", "+"}
      n == DigitsValue(IF signed THEN Tail(s) ELSE s, -1)
  IN IF n < 0 THEN NaN
     ELSE Number(IF signed /\ Head(s) = "-" THEN 0 - n ELSE n)

\* The eight queries of a game's details, and the five of a season's
GameDetailCalls ==
  <<"getGameTeamStats", "getScoringPlays", "getGamePassing", "getGameRushing",
    "getGameReceiving", "getGameDefense", "getGameSacks", "getGameInterceptions">>
SeasonCalls ==
  <<"getSeasonGames", "getSeasonTeamStats", "getSeasonPassingLeaders",
    "getSeasonRushingLeaders", "getSeasonReceivingLeaders">>
GameDetailQueries == {GameDetailCalls[i] : i \in DOMAIN GameDetailCalls}
SeasonQueries == {SeasonCalls[i] : i \in DOMAIN SeasonCalls}
\* What getGame(id) resolves with: a game, or null (JsNull) for an id without one
GameRow(id) == [js |-> "object", game_id |-> id]
\* The ids and the years of the requested paths
PageIds == {"g1", "g2"}
YearParams ==
  {<<"2", "0", "0", "9">>, <<"a", "b", "c">>, <<>>, <<"2", "0", "0", "9", "a", "b", "c">>,
   <<"1", "2", ".", "5">>, <<"-", "1">>}

\* A render: the page, its parameter, the queries issued so far in the order
\* of their calls, those not settled yet, and how the render ended: with the
\* page, with notFound(), or with the exception of a query.
Render(name, param) ==
  [used |-> TRUE, name |-> name, param |-> param, pc |-> "start", issued |-> <<>>,
   pending |-> {}, game |-> Undefined, games |-> 0, end |-> "none"]

\* GamePage: const game = await getGame(id)
GamePage(id) ==
  /\ page = Unused
  /\ page' = [Render("GamePage", id) EXCEPT
                !.pc = "getGame", !.issued = <<"getGame">>, !.pending = {"getGame"}]
  /\ UNCHANGED <<server, statsPage, upload, statTable>>
\* if (!game) notFound(), which throws; else the Promise.all of the eight
getGameReturns(game) ==
  /\ page.used /\ page.pc = "getGame"
  /\ game.js = "object" => game.game_id = page.param
  /\ page' =
       IF game.js = "null"
         THEN [page EXCEPT !.pc = "done", !.pending = {}, !.game = game, !.end = "notFound"]
         ELSE [page EXCEPT !.pc = "all", !.game = game, !.pending = GameDetailQueries,
                           !.issued = @ \o GameDetailCalls]
  /\ UNCHANGED <<server, statsPage, upload, statTable>>

\* SeasonDetailPage: const year = parseInt(yearStr, 10); if (isNaN(year))
\* notFound(); else the Promise.all of the five
SeasonDetailPage(yearStr) ==
  /\ page = Unused
  /\ page' =
       IF isNaN(parseInt(yearStr))
         THEN [Render("SeasonDetailPage", yearStr) EXCEPT !.pc = "done", !.end = "notFound"]
         ELSE [Render("SeasonDetailPage", yearStr) EXCEPT
                 !.pc = "all", !.pending = SeasonQueries, !.issued = SeasonCalls]
  /\ UNCHANGED <<server, statsPage, upload, statTable>>

\* A query of the Promise.all resolves; with the last one the page goes on:
\* if (games.length === 0) notFound(), and the render.
queryResolves(q, rows) ==
  /\ page.used /\ page.pc = "all"
  /\ q \in page.pending
  /\ LET games == IF q = "getSeasonGames" THEN rows ELSE page.games
         over == page.pending = {q}
     IN page' = [page EXCEPT
          !.pending = @ \ {q},
          !.games = games,
          !.pc = IF over THEN "done" ELSE @,
          !.end = IF ~over THEN @
                  ELSE IF page.name = "SeasonDetailPage" /\ games = 0 THEN "notFound"
                  ELSE "rendered"]
  /\ UNCHANGED <<server, statsPage, upload, statTable>>
\* A query of the Promise.all rejects, and with it the await of the page
queryRejects(q) ==
  /\ page.used /\ page.pc \in {"getGame", "all"}
  /\ q \in page.pending
  /\ page' = [page EXCEPT !.pending = @ \ {q}, !.pc = "done", !.end = "error"]
  /\ UNCHANGED <<server, statsPage, upload, statTable>>
\* The response is sent, and the next request is rendered from scratch
rendered ==
  /\ page.used /\ page.pc = "done"
  /\ page' = Unused
  /\ UNCHANGED <<server, statsPage, upload, statTable>>

InitPages ==
  /\ db = EmptyDb
  /\ ServerIdle
  /\ page = Unused
  /\ statsPage = Unused
  /\ upload = Unused
  /\ statTable = Unused
NextPages ==
  \/ \E id \in PageIds : GamePage(id)
  \/ \E game \in {JsNull} \cup {GameRow(id) : id \in PageIds} : getGameReturns(game)
  \/ \E yearStr \in YearParams : SeasonDetailPage(yearStr)
  \/ \E q \in GameDetailQueries \cup SeasonQueries, rows \in 0..1 : queryResolves(q, rows)
  \/ \E q \in GameDetailQueries \cup SeasonQueries \cup {"getGame"} : queryRejects(q)
  \/ rendered
SpecPages == InitPages /\ [][NextPages]_vars

---------------------------------------------------------------------------
\* StatTable (components/stat-table.tsx): a table whose header cells sort it.
\* Its state is sortCol and sortAsc; sorted, the rendered order of the rows,
\* is computed from data and the state on every render.

\* The greatest number of rows of data, and of clicks on the header
MaxRows == 2
MaxClicks == 2
\* columns: the third one is declared with sortable: false
TableColumns ==
  <<[key |-> "player_name"], [key |-> "yds"], [key |-> "opponent", sortable |-> FALSE]>>
ColumnKeys == {TableColumns[i].key : i \in DOMAIN TableColumns}
\* The rows of data: a name or null, yards or null or no yds property at all
TableRows ==
  {[player_name |-> n, yds |-> y] : n \in {JsStr(Brees), JsStr(Bush), JsNull},
                                    y \in {JsNum(1), JsNum(2), JsNull}}
    \cup {[player_name |-> n] : n \in {JsStr(Brees), JsStr(Bush), JsNull}}
TableData == UNION {[1..n -> TableRows] : n \in 0..MaxRows}
\* row[key]: undefined for a property the row does not have
Prop(row, key) == IF key \in DOMAIN row THEN row[key] ELSE Undefined
\* av == null
IsNullish(v) == v.js \in {"null", "undefined"}
\* a.localeCompare(b)
localeCompare(a, b) == IF a = b THEN 0 ELSE IF TextLeq(a, b) THEN -1 ELSE 1
\* The comparator had it sorted null like a value, as the smallest one.
compareNullAsValue(a, b, sortCol, sortAsc) ==
  LET av == Prop(a, sortCol)
      bv == Prop(b, sortCol)
      an == IF IsNullish(av) THEN -1 ELSE IF av.js = "string" THEN 0 ELSE av.v
      bn == IF IsNullish(bv) THEN -1 ELSE IF bv.js = "string" THEN 0 ELSE bv.v
  IN IF ~IsNullish(av) /\ ~IsNullish(bv) /\ av.js = "string" /\ bv.js = "string"
       THEN IF sortAsc THEN localeCompare(av.v, bv.v) ELSE localeCompare(bv.v, av.v)
       ELSE IF sortAsc THEN an - bn ELSE bn - an
\* The comparator of the sort: (a, b) => { ... }
compare(a, b, sortCol, sortAsc) ==
  LET av == Prop(a, sortCol)
      bv == Prop(b, sortCol)
  IN IF IsNullish(av) /\ IsNullish(bv) THEN 0
     ELSE IF IsNullish(av) THEN 1
     ELSE IF IsNullish(bv) THEN -1
     ELSE IF av.js = "string" /\ bv.js = "string"
       THEN IF sortAsc THEN localeCompare(av.v, bv.v) ELSE localeCompare(bv.v, av.v)
     ELSE IF sortAsc THEN av.v - bv.v ELSE bv.v - av.v
\* [...data].sort(comparator): the sort is stable, so with a consistent
\* comparator the order is the one in which rows that compare equal keep
\* their order in data.
sorted(data, sortCol, sortAsc) ==
  LET n == Len(data)
      f == CHOOSE g \in Perms(1..n) :
             \A i, j \in 1..n :
               i < j => LET c == compare(data[g[i]], data[g[j]], sortCol, sortAsc)
                        IN c < 0 \/ (c = 0 /\ g[i] < g[j])
  IN [i \in 1..n |-> data[f[i]]]

\* The first render: useState(defaultSort ?? columns[0]?.key) and
\* useState(defaultAsc).  clicks lists the header clicks so far, each with
\* the column clicked and the state it found.
Mounted(data, defaultSort, defaultAsc) ==
  LET sortCol == IF defaultSort = {} THEN TableColumns[1].key ELSE The(defaultSort)
  IN [used |-> TRUE, data |-> data, sortCol |-> sortCol, sortAsc |-> defaultAsc,
      sorted |-> sorted(data, sortCol, defaultAsc), clicks |-> <<>>]
\* handleSort(key), and the render that follows
handleSort(t, key) ==
  LET sortCol == IF t.sortCol = key THEN t.sortCol ELSE key
      sortAsc == IF t.sortCol = key THEN ~t.sortAsc ELSE FALSE
  IN [t EXCEPT !.sortCol = sortCol, !.sortAsc = sortAsc,
               !.sorted = sorted(t.data, sortCol, sortAsc)]
\* onClick={() => col.sortable !== false && handleSort(col.key)}
onClick(t, col) ==
  IF "sortable" \notin DOMAIN col \/ col.sortable # FALSE THEN handleSort(t, col.key) ELSE t
\* A click on the header cell of column c
headerClick(c) ==
  /\ statTable.used
  /\ Len(statTable.clicks) < MaxClicks
  /\ statTable' =
       [onClick(statTable, TableColumns[c]) EXCEPT
          !.clicks = Append(@, [key |-> TableColumns[c].key, sortCol |-> statTable.sortCol,
                                sortAsc |-> statTable.sortAsc])]
  /\ UNCHANGED <<server, statsPage, upload, page>>

InitTable ==
  /\ db = EmptyDb
  /\ ServerIdle
  /\ statTable \in {Mounted(data, defaultSort, defaultAsc) :
                      data \in TableData, defaultSort \in {{}, {"yds"}}, defaultAsc \in BOOLEAN}
  /\ statsPage = Unused
  /\ upload = Unused
  /\ page = Unused
NextTable == \E c \in DOMAIN TableColumns : headerClick(c)
SpecTable == InitTable /\ [][NextTable]_vars

---------------------------------------------------------------------------
\* The declared input schemas: the zod type of every field of every tool.

InputSchema(tool) ==
  CASE tool = "query_games" ->
         [season |-> "number", opponent |-> "string", result |-> "enum",
          game_type |-> "enum", limit |-> "number"]
    [] tool = "query_player_stats" ->
         [player_name |-> "string", stat_type |-> "enum", season |-> "number",
          career_totals |-> "boolean"]
    [] tool = "query_leaderboards" ->
         [stat_type |-> "enum", scope |-> "enum", sort_by |-> "string", limit |-> "number"]
    [] tool = "query_team_season" -> [season |-> "number"]
    [] tool = "search_players" -> [name |-> "string", limit |-> "number"]
    [] tool = "query_player_bio" -> [player_name |-> "string"]
    [] tool = "query_scoring" ->
         [game_id |-> "string", season |-> "number", opponent |-> "string"]
    [] OTHER ->
         [stat_type |-> "enum", stat_column |-> "string", min_value |-> "number",
          scope |-> "enum"]

---------------------------------------------------------------------------
\* What the properties below are stated against: the tables themselves.

Saints == <<"S", "a", "i", "n", "t", "s">>
NewOrleans == <<"N", "e", "w", " ", "O", "r", "l", "e", "a", "n", "s">>
\* sub occurs in s
Contains(s, sub) ==
  \E i \in 0..(Len(s) - Len(sub)) : SubSeq(s, i + 1, i + Len(sub)) = sub
\* The franchise heuristic of the statements: team LIKE '%Saints%' OR team
\* LIKE '%New Orleans%', and LIKE does not tell upper from lower case.
Franchise(team) ==
  Contains(Lower(team), Lower(Saints)) \/ Contains(Lower(team), Lower(NewOrleans))
NameMatches(name, part) == Contains(Lower(name), Lower(part))

GameOf(l) == {g \in db.games : g.game_id = l.game_id}
\* The franchise lines of player pid in table tbl that belong to a
\* regular-season game, of the seasons in seasons.
RegularLines(tbl, pid, seasons) ==
  {l \in db[tbl] :
     /\ l.player_id = pid
     /\ Franchise(l.team)
     /\ \E g \in GameOf(l) : g.game_type = "regular" /\ g.season \in seasons}
Seasons == {g.season : g \in GameUniverse}
\* The seasons a season argument selects: all of them when it is not given.
Selected(season) == IF TruthyNum(season) THEN season ELSE Seasons
Total(L, col) == SumOf(L, [l \in L |-> l[col]])

---------------------------------------------------------------------------
\* Properties.

\* C1: every statement handed to query() has as many '?' placeholders as
\* arguments, and the k-th argument is the value of the input field the k-th
\* placeholder stands for.
C1_ArgsMatchPlaceholders ==
  \A i \in DOMAIN issued :
    LET ph == Placeholders(issued[i].sql)
        args == issued[i].args
    IN /\ Len(ph) = Len(args)
       /\ \A k \in DOMAIN ph : k \in DOMAIN args => ph[k].for = args[k].field

\* C2: a value spliced into the text of a statement comes from an input
\* field declared as an enum; no z.string() field is part of the text.
C2_OnlyEnumsSpliced ==
  \A i \in DOMAIN issued :
    \A j \in DOMAIN issued[i].sql :
      issued[i].sql[j].k = "id" => InputSchema(call.tool)[issued[i].sql[j].from] = "enum"

\* C3: the totals and the games count of every row of a career_totals call
\* are those of the player's franchise lines of regular-season games (of the
\* season asked for, if one is): no preseason or playoff line contributes.
C3_CareerTotalsRegularOnly ==
  (call.tool = "query_player_stats" /\ call.input.career_totals /\ ret.kind = "rows") =>
    \A i \in DOMAIN ret.rows :
      LET r == ret.rows[i]
          L(tbl) == RegularLines(tbl, r.player_id, Selected(call.input.season))
      IN IF call.input.stat_type = "defense"
           THEN /\ r.tkl = Num(Total(L("player_defense"), "val"))
                /\ r.sacks = Num(Total(L("player_sacks"), "val"))
                /\ r.interceptions = Num(Total(L("player_interceptions"), "val"))
           ELSE LET tbl == StatTable(call.input.stat_type)
                IN /\ r.yds = Num(Total(L(tbl), "yds"))
                   /\ r.td = Num(Total(L(tbl), "td"))
                   /\ r.games = Num(Cardinality({l.game_id : l \in L(tbl)}))

\* The franchise passing lines of preseason games that a game-by-game call
\* for player_name and season asks for: the player's name contains
\* player_name, the season (if given) is the game's, and fewer than 50
\* matching lines are of a later date.
PassingMatches(player_name, season) ==
  {l \in db.player_passing :
     /\ Franchise(l.team)
     /\ \E p \in db.players : p.player_id = l.player_id /\ NameMatches(p.player_name, player_name)
     /\ \E g \in GameOf(l) : season = {} \/ season = {g.season}}
PreseasonAsked(player_name, season) ==
  {l \in PassingMatches(player_name, season) :
     /\ \E g \in GameOf(l) : g.game_type = "preseason"
     /\ Cardinality({m \in PassingMatches(player_name, season) :
                       \E g \in GameOf(l), h \in GameOf(m) : h.game_date > g.game_date}) < 50}
Listed(l) ==
  /\ ret.kind = "rows"
  /\ \E i \in DOMAIN ret.rows :
       /\ ret.rows[i].player_id = l.player_id
       /\ ret.rows[i].game_id = l.game_id
       /\ ret.rows[i].yds = Num(l.yds)
GameByGamePassing ==
  /\ call.tool = "query_player_stats"
  /\ ~call.input.career_totals
  /\ call.input.stat_type = "passing"

\* C4: a game-by-game passing call lists every franchise passing line of a
\* preseason game that matches the player name and the season.
C4_PreseasonLineListed ==
  GameByGamePassing =>
    \A l \in PreseasonAsked(call.input.player_name, call.input.season) : Listed(l)

C4_Witness ==
  /\ GameByGamePassing
  /\ call.input.season = {2009}
  /\ \E l \in PreseasonAsked(call.input.player_name, call.input.season) : Listed(l)

\* A leaderboard row r is computed from franchise lines of regular-season
\* games alone: its totals are those of the lines of its player (and season),
\* or, with scope 'game', it is one such line.
FromRegularLines(r, stat_type, scope) ==
  LET seasons == IF scope = "season" THEN {r.season} ELSE Seasons
      L(tbl) == RegularLines(tbl, r.player_id, seasons)
  IN CASE stat_type = "defense" /\ scope = "game" ->
            \E l \in L("player_sacks") : l.game_id = r.game_id /\ r.sacks = Num(l.val)
       [] stat_type = "defense" /\ scope # "game" ->
            /\ r.tkl = Num(Total(L("player_defense"), "val"))
            /\ r.sacks = Num(Total(L("player_sacks"), "val"))
            /\ r.int_count = Num(Total(L("player_interceptions"), "val"))
       [] stat_type # "defense" /\ scope = "game" ->
            \E l \in L(StatTable(stat_type)) :
              l.game_id = r.game_id /\ r.yds = Num(l.yds) /\ r.td = Num(l.td)
       [] OTHER ->
            /\ r.yds = Num(Total(L(StatTable(stat_type)), "yds"))
            /\ r.td = Num(Total(L(StatTable(stat_type)), "td"))

\* C5: every stat value of every row query_leaderboards returns, for every
\* stat_type and scope, is computed from franchise lines of regular-season
\* games only; preseason and playoff lines never contribute.
C5_LeaderboardsRegularOnly ==
  (call.tool = "query_leaderboards" /\ ret.kind = "rows") =>
    \A i \in DOMAIN ret.rows :
      FromRegularLines(ret.rows[i], call.input.stat_type, call.input.scope)

\* A leaderboard lists a player who also has a franchise line in a game that
\* is not of the regular season.
C5_Witness ==
  /\ call.tool = "query_leaderboards"
  /\ ret.kind = "rows"
  /\ \E i \in DOMAIN ret.rows :
       /\ FromRegularLines(ret.rows[i], call.input.stat_type, call.input.scope)
       /\ call.input.stat_type # "defense"
       /\ \E l \in db[StatTable(call.input.stat_type)] :
            /\ l.player_id = ret.rows[i].player_id
            /\ Franchise(l.team)
            /\ \E g \in GameOf(l) : g.game_type # "regular"

\* The defense tables in which player pid has franchise lines of
\* regular-season games of the given seasons.
DefenseTablesOf(pid, seasons) == {t \in DefenseTables : RegularLines(t, pid, seasons) # {}}
\* rows holds exactly one row of key (pid, season), and in it the columns
\* fed by the tables without such lines are 0.
OneRowOthersZero(rows, pid, bySeason, season, seasons, column) ==
  LET I == {i \in DOMAIN rows :
              rows[i].player_id = pid /\ (bySeason => rows[i].season = season)}
  IN /\ Cardinality(I) = 1
     /\ \A i \in I : \A t \in DefenseTables \ DefenseTablesOf(pid, seasons) :
          rows[i][column[t]] = Num(0)
PlayerStatsColumn ==
  [player_defense |-> "tkl", player_sacks |-> "sacks", player_interceptions |-> "interceptions"]
LeaderboardsColumn ==
  [player_defense |-> "tkl", player_sacks |-> "sacks", player_interceptions |-> "int_count"]
\* The (player, season) groups of the defense tables.
DefenseGroups ==
  {<<pid, s>> \in PlayerIds \X Seasons : DefenseTablesOf(pid, {s}) # {}}

\* C6: for a player with franchise regular-season lines in exactly one of the
\* three defense tables, the career defense call of query_player_stats (for
\* a matching name) and the career and season defense leaderboards (sorted by
\* a column they have, with a limit that cuts nothing off) return exactly one
\* row per player (and season), whose other two columns are 0.
C6_OneTableOneRow ==
  /\ (call.tool = "query_player_stats" /\ call.input.stat_type = "defense"
        /\ call.input.career_totals) =>
       \A p \in db.players :
         (/\ NameMatches(p.player_name, call.input.player_name)
          /\ Cardinality(DefenseTablesOf(p.player_id, Selected(call.input.season))) = 1) =>
           /\ ret.kind = "rows"
           /\ OneRowOthersZero(ret.rows, p.player_id, FALSE, 0,
                               Selected(call.input.season), PlayerStatsColumn)
  /\ (call.tool = "query_leaderboards" /\ call.input.stat_type = "defense"
        /\ call.input.scope = "career" /\ call.input.sort_by \in DefenseResultCols
        /\ call.input.limit >= Cardinality(PlayerIds)) =>
       \A p \in db.players :
         Cardinality(DefenseTablesOf(p.player_id, Seasons)) = 1 =>
           /\ ret.kind = "rows"
           /\ OneRowOthersZero(ret.rows, p.player_id, FALSE, 0, Seasons, LeaderboardsColumn)
  /\ (call.tool = "query_leaderboards" /\ call.input.stat_type = "defense"
        /\ call.input.scope = "season" /\ call.input.sort_by \in DefenseResultCols
        /\ call.input.limit >= Cardinality(DefenseGroups)) =>
       \A p \in db.players :
         Cardinality(DefenseTablesOf(p.player_id, Seasons)) = 1 =>
           \A s \in Seasons :
             DefenseTablesOf(p.player_id, {s}) # {} =>
               /\ ret.kind = "rows"
               /\ OneRowOthersZero(ret.rows, p.player_id, TRUE, s, {s}, LeaderboardsColumn)

\* The games the season and opponent arguments of query_scoring ask for.
GamesAsked(season, opponent) ==
  {g \in db.games :
     /\ season = {} \/ season = {g.season}
     /\ opponent = {} \/ NameMatches(g.opponent, The(opponent))}
ReadsScoringPlays ==
  \E i \in DOMAIN issued : ScopeTable(issued[i].sql, 0) = "scoring_plays"

\* C10: query_scoring without game_id returns {error: 'No matching game
\* found'}, and reads no scoring play, exactly when no game satisfies the
\* season and opponent arguments; otherwise it returns {game, scoring_plays},
\* with an empty list when the game has no scoring plays; it never throws.
C10_NoGameVersusNoPlays ==
  (call.tool = "query_scoring" /\ call.input.game_id = {}) =>
    LET M == GamesAsked(call.input.season, call.input.opponent)
    IN /\ ret # Thrown
       /\ M = {} => (ret = NoMatchingGame /\ ~ReadsScoringPlays)
       /\ M # {} =>
            /\ ret.kind = "game"
            /\ {sp \in db.scoring_plays : sp.game_id = ret.game.game_id} = {}
                 => ret.scoring_plays = <<>>

\* The request of the leaders endpoint, with the defaults of absent parameters.
Requested == call.tool = "GET"
ScopeAsked == OrDefault(call.scope, "career")
CategoryAsked == OrDefault(call.category, "passing")
OffenseCategories == {"passing", "rushing", "receiving"}

\* C7 as stated: for every scope in {career, season, game} and category in
\* {passing, rushing, receiving, defense}, other than (game, defense), the
\* response is not the 400 error, and a response that succeeds is a JSON array.
C7_AllCategoriesAnswerArrays ==
  (/\ Requested
   /\ ScopeAsked \in Scopes
   /\ CategoryAsked \in OffenseCategories \cup {"defense"}
   /\ ~(ScopeAsked = "game" /\ CategoryAsked = "defense")) =>
    /\ http.status # 400
    /\ http.status = 200 => http.body.js = "array"

\* C7, amended: for the nine pairs of {career, season, game} and {passing,
\* rushing, receiving} GET calls the pair's fetch function with limit 50 and,
\* unless the call fails, answers 200 with the array it yields; for the
\* category defense, with any of the three scopes, it answers 400 with
\* {error: 'Invalid scope or category'} and calls nothing.
C7_NinePairsAnswerArrays ==
  (Requested /\ ScopeAsked \in Scopes) =>
    /\ CategoryAsked \in OffenseCategories =>
         /\ issued = <<[called |-> Fetcher(ScopeAsked, CategoryAsked), limit |-> 50]>>
         /\ http.status \in {200, 500}
         /\ http.status = 200 => (http.body.js = "array" /\ http.body.v \in LeaderData)
    /\ CategoryAsked = "defense" => (http = InvalidScopeOrCategory /\ issued = <<>>)

C7_Witness ==
  /\ Requested
  /\ call.scope = {"season"}
  /\ call.category = {"rushing"}
  /\ http = Response(200, JsArr(<<"row1", "row2">>))
  /\ issued = <<[called |-> Fetcher("season", "rushing"), limit |-> 50]>>

\* C8: every request whose (scope, category) is not one of the nine entries
\* of the fetchers table is answered 400 with {error: 'Invalid scope or
\* category'}, and nothing is called for it.
C8_UnknownPairRejected ==
  (Requested /\ ~(ScopeAsked \in Scopes /\ CategoryAsked \in OffenseCategories)) =>
    (http = InvalidScopeOrCategory /\ issued = <<>>)

\* The rows are exactly the plays of P, each once, in ascending id order.
PlaysInIdOrder(rows, P) ==
  /\ Len(rows) = Cardinality(P)
  /\ {rows[i] : i \in DOMAIN rows} = P
  /\ \A i \in 1..(Len(rows) - 1) : rows[i].id < rows[i + 1].id

\* C11: query_scoring with a non-empty game_id returns exactly the scoring
\* plays of that game_id, in ascending order of the play id, whatever the
\* quarters of the plays and whatever season or opponent is supplied with it.
C11_PlaysOfGameById ==
  (call.tool = "query_scoring" /\ TruthyStr(call.input.game_id)) =>
    /\ ret.kind = "rows"
    /\ PlaysInIdOrder(ret.rows,
                      {sp \in db.scoring_plays : sp.game_id = The(call.input.game_id)})
    /\ Len(issued) = 1

\* A game_id with a season and an opponent that its game does not have; the
\* plays come back in id order, which is not their quarter order.
C11_Witness ==
  /\ call.tool = "query_scoring"
  /\ call.input = [game_id |-> {"g1"}, season |-> {2010}, opponent |-> {<<"C", "o", "l">>}]
  /\ ret.kind = "rows"
  /\ Len(ret.rows) = 2
  /\ ret.rows[1].id < ret.rows[2].id
  /\ ret.rows[1].quarter > ret.rows[2].quarter

Min(a, b) == IF a <= b THEN a ELSE b
\* query_games was called without any filter.
NoFilters ==
  /\ call.tool = "query_games"
  /\ call.input.season = {} /\ call.input.opponent = {}
  /\ call.input.result = {} /\ call.input.game_type = {}
DateDescending(rows) ==
  \A i \in 1..(Len(rows) - 1) : rows[i].game_date >= rows[i + 1].game_date

\* C12: query_games without filters returns games in non-increasing
\* game_date order, and exactly min(limit, number of games) of them.
C12_NoFilterDateOrderExactLimit ==
  NoFilters =>
    /\ ret.kind = "rows"
    /\ DateDescending(ret.rows)
    /\ Len(ret.rows) = Min(call.input.limit, Cardinality(db.games))

\* Game g satisfies every filter supplied in the input of query_games.
SatisfiesFilters(g, input) ==
  /\ input.season # {} => g.season = The(input.season)
  /\ input.opponent # {} => NameMatches(g.opponent, The(input.opponent))
  /\ input.result # {} => g.result = The(input.result)
  /\ input.game_type # {} => g.game_type = The(input.game_type)
OnlySeasonFilter ==
  /\ call.tool = "query_games"
  /\ call.input.season # {} /\ call.input.opponent = {}
  /\ call.input.result = {} /\ call.input.game_type = {}

\* C13: every game query_games returns satisfies all the supplied filters;
\* with only a season supplied (and a limit that is a count) the rows are the
\* games of that season, of any game_type, up to limit, and no other game.
C13_FiltersConjunctive ==
  (call.tool = "query_games" /\ ret.kind = "rows") =>
    /\ \A i \in DOMAIN ret.rows : SatisfiesFilters(ret.rows[i], call.input)
    /\ (OnlySeasonFilter /\ call.input.limit >= 0) =>
         LET S == {g \in db.games : g.season = The(call.input.season)}
         IN /\ {ret.rows[i] : i \in DOMAIN ret.rows} \subseteq S
            /\ Len(ret.rows) = Min(call.input.limit, Cardinality(S))

\* C14: whatever calls of query() and queryOne() are under way or over, at
\* most one client has been created, none before the first call, and every
\* call executes on the one client that _db holds.
C14_OneLazyClient ==
  /\ created <= 1
  /\ calls = <<>> => (_db = NoClient /\ created = 0)
  /\ \A i \in DOMAIN calls : calls[i].on # NoClient /\ calls[i].on = _db

\* A queryOne() started while a query() was waiting for its execute.
C14_Witness ==
  /\ Len(calls) = 2
  /\ calls[1].fn = "query" /\ calls[1].pc = "execute"
  /\ calls[2].fn = "queryOne"
  /\ calls[2].on = calls[1].on
  /\ created = 1

\* C15: a call of query() or queryOne() executes its statement once, and
\* when the execute fails the call ends with that same error: not with rows,
\* not with null, not with another error.
C15_ExecuteErrorPropagates ==
  \A i \in DOMAIN calls :
    /\ calls[i].executes = 1
    /\ (calls[i].pc = "done" /\ calls[i].result.kind = "throw") =>
         calls[i].out = calls[i].result

\* A query() and a queryOne() that ended with the errors of their executes.
C15_Witness ==
  /\ Len(calls) = 2
  /\ calls[1].fn = "query" /\ calls[1].pc = "done"
  /\ calls[1].out = Rejected("SQLITE_ERROR")
  /\ calls[2].fn = "queryOne" /\ calls[2].pc = "done"
  /\ calls[2].result = Rejected("fetch failed") /\ calls[2].out = Rejected("fetch failed")

\* C16: queryOne() returns the first row of what query() returns for its
\* statement when there is a row, and null when there is none.
C16_FirstRowOrNull ==
  \A i \in DOMAIN calls :
    (calls[i].fn = "queryOne" /\ calls[i].pc = "done" /\ calls[i].result.kind = "rows") =>
      calls[i].out = IF calls[i].result.rows = <<>> THEN [kind |-> "null"]
                     ELSE [kind |-> "row", row |-> calls[i].result.rows[1]]

\* One queryOne() over two rows, another over none.
C16_Witness ==
  /\ Len(calls) = 2
  /\ \A i \in {1, 2} : calls[i].fn = "queryOne" /\ calls[i].pc = "done"
  /\ calls[1].result.kind = "rows" /\ Len(calls[1].result.rows) = 2
  /\ calls[1].out = [kind |-> "row", row |-> calls[1].result.rows[1]]
  /\ calls[2].result = Rows(<<>>) /\ calls[2].out = [kind |-> "null"]

\* Row r of a game-by-game result is the row of stat line l.
RowOf(r, l) == r.player_id = l.player_id /\ r.game_id = l.game_id

\* C17: the stat lines a tool attributes to the franchise are exactly those
\* whose team contains 'Saints' or 'New Orleans', the predicate isSaintsTeam
\* of the game page: of the lines of a matching player and season, the
\* game-by-game call of query_player_stats lists those and no other.
C17_SubstringPredicateEverywhere ==
  (/\ call.tool = "query_player_stats"
   /\ call.input.stat_type \in OffenseTypes
   /\ ~call.input.career_totals
   /\ ret.kind = "rows") =>
    \A l \in db[StatTable(call.input.stat_type)] :
      (/\ \E p \in db.players :
            p.player_id = l.player_id /\ NameMatches(p.player_name, call.input.player_name)
       /\ \E g \in GameOf(l) : g.season \in Selected(call.input.season)) =>
        ((\E i \in DOMAIN ret.rows : RowOf(ret.rows[i], l)) <=> isSaintsTeam(l.team))

Candidates(input) ==
  LET all == CHOOSE r \in QueryLeaderboardsSelected(
                            db, QueryLeaderboardsSql(input.stat_type, input.scope,
                                                     input.sort_by, -1),
                            input.stat_type, input.scope) : TRUE
  IN {all[i] : i \in DOMAIN all}
\* rows are in non-increasing order of column col, and no row of the
\* candidates left out has more in col than a row of rows.
TopBy(rows, col, candidates) ==
  /\ \A i \in DOMAIN rows : col \in DOMAIN rows[i]
  /\ \A i \in 1..(Len(rows) - 1) : rows[i][col].v >= rows[i + 1][col].v
  /\ \A c \in candidates \ {rows[i] : i \in DOMAIN rows} :
       \A i \in DOMAIN rows : c[col].v <= rows[i][col].v

\* C19: for every stat_type and scope, query_leaderboards returns at most
\* limit rows, in non-increasing order of the sort_by column, and they are
\* the top ones of the candidates.
C19_TopLimitBySortBy ==
  (call.tool = "query_leaderboards" /\ ret.kind = "rows") =>
    /\ Len(ret.rows) <= call.input.limit
    /\ TopBy(ret.rows, call.input.sort_by, Candidates(call.input))

\* C20: query_scoring without a game_id selects, among the games that satisfy
\* all the supplied season and opponent filters, one with the greatest
\* game_date, and every play of the returned scoring_plays belongs to that
\* game, the plays in ascending id order.
C20_LatestMatchingGameAndItsPlays ==
  (call.tool = "query_scoring" /\ call.input.game_id = {} /\ ret.kind = "game") =>
    LET M == GamesAsked(call.input.season, call.input.opponent)
        plays == ret.scoring_plays
    IN /\ GameOf(ret.game) # {}
       /\ GameOf(ret.game) \subseteq M
       /\ \A g \in M : g.game_date <= ret.game.game_date
       /\ \A i \in DOMAIN plays : plays[i].game_id = ret.game.game_id
       /\ \A i \in 1..(Len(plays) - 1) : plays[i].id < plays[i + 1].id

\* The key a scope gives a leaderboard row: the player, the player and the
\* season, or the stat line (player and game).
GranuleOf(r, scope) ==
  CASE scope = "career" -> <<r.player_id>>
    [] scope = "season" -> <<r.player_id, r.season>>
    [] OTHER -> <<r.player_id, r.game_id>>

\* C21: for every stat_type, the rows of query_leaderboards have the
\* granularity of the scope: with 'career' at most one row per player, with
\* 'season' at most one row per player and season, each holding the sums over
\* the qualifying lines of its key; with 'game' each row is one stat line of
\* one game, not a sum.
C21_ScopeFixesGranularity ==
  (call.tool = "query_leaderboards" /\ ret.kind = "rows") =>
    /\ \A i, j \in DOMAIN ret.rows :
         GranuleOf(ret.rows[i], call.input.scope) = GranuleOf(ret.rows[j], call.input.scope)
           => i = j
    /\ \A i \in DOMAIN ret.rows :
         FromRegularLines(ret.rows[i], call.input.stat_type, call.input.scope)

\* A career leaderboard holds one row for a player with two qualifying lines,
\* and a season leaderboard over the same tables would hold two.
C21_Witness ==
  /\ call.tool = "query_leaderboards"
  /\ call.input.scope = "career"
  /\ call.input.stat_type # "defense"
  /\ ret.kind = "rows"
  /\ \E i \in DOMAIN ret.rows :
       LET L == RegularLines(StatTable(call.input.stat_type), ret.rows[i].player_id, Seasons)
       IN /\ Cardinality(L) >= 2
          /\ ret.rows[i].yds = Num(Total(L, "yds"))
          /\ Cardinality({g.season : g \in UNION {GameOf(l) : l \in L}}) >= 2

\* The stat tables a statement reads: the tables its FROM clauses name.
StatTablesRead(stmt) ==
  {ScopeTable(stmt.sql, stmt.sql[i].scope) :
     i \in {j \in DOMAIN stmt.sql : stmt.sql[j].clause = "from"}}
DefenseGame ==
  /\ call.tool = "query_leaderboards"
  /\ call.input.stat_type = "defense"
  /\ call.input.scope = "game"

\* C22: query_leaderboards with stat_type 'defense' and scope 'game' reads
\* only player_sacks, returns at most limit rows, each a sacks line, in
\* non-increasing order of sacks, and the statement is the same whatever
\* sort_by is.
C22_DefenseGameIsSacksOnly ==
  DefenseGame =>
    /\ ret.kind = "rows"
    /\ Len(issued) = 1
    /\ StatTablesRead(issued[1]) = {"player_sacks"}
    /\ \A sort_by \in SortByInputs :
         issued[1] = QueryLeaderboardsSql("defense", "game", sort_by, call.input.limit)
    /\ Len(ret.rows) <= call.input.limit
    /\ TopBy(ret.rows, "sacks", Candidates(call.input))

\* The franchise lines of table tbl that belong to regular-season games.
AllRegularLines(tbl) == UNION {RegularLines(tbl, pid, Seasons) : pid \in PlayerIds}
\* The records a query_records call asks for, as <<player, season or game,
\* value>>: the (player, season) sums, or the single lines, of stat_column
\* that are at least min_value.
RecordsAsked(input) ==
  LET tbl == StatTable(input.stat_type)
      col == input.stat_column
  IN IF input.scope = "season"
       THEN {<<pid, s, Total(RegularLines(tbl, pid, {s}), col)>> :
               <<pid, s>> \in {k \in PlayerIds \X Seasons :
                                 /\ RegularLines(tbl, k[1], {k[2]}) # {}
                                 /\ Total(RegularLines(tbl, k[1], {k[2]}), col)
                                      >= input.min_value}}
       ELSE {<<l.player_id, l.game_id, l[col]>> :
               l \in {x \in AllRegularLines(tbl) : x[col] >= input.min_value}}
RecordOf(r, scope) ==
  IF scope = "season" THEN <<r.player_id, r.season, r.total.v>>
                      ELSE <<r.player_id, r.game_id, r.value.v>>
RecordsCall == call.tool = "query_records" /\ call.input.stat_column \in {"yds", "td"}

\* C23: query_records returns exactly the qualifying records, however many:
\* with scope 'season' one row per (player, season) whose sum of stat_column
\* over franchise regular-season lines is at least min_value, with scope
\* 'game' one row per such line whose stat_column is at least min_value; the
\* rows are in non-increasing order of the value, none below min_value.
C23_ExactlyTheRecords ==
  RecordsCall =>
    /\ ret.kind = "rows"
    /\ Len(ret.rows) = Cardinality(RecordsAsked(call.input))
    /\ {RecordOf(ret.rows[i], call.input.scope) : i \in DOMAIN ret.rows}
         = RecordsAsked(call.input)
    /\ \A i \in DOMAIN ret.rows :
         RecordOf(ret.rows[i], call.input.scope)[3] >= call.input.min_value
    /\ \A i \in 1..(Len(ret.rows) - 1) :
         RecordOf(ret.rows[i], call.input.scope)[3]
           >= RecordOf(ret.rows[i + 1], call.input.scope)[3]

\* A record of a single game comes back while a line of the same table stays
\* out, being below the threshold, of another team or not of the regular season.
C23_Witness ==
  /\ RecordsCall
  /\ call.input.scope = "game"
  /\ ret.kind = "rows"
  /\ Len(ret.rows) >= 1
  /\ Cardinality(db[StatTable(call.input.stat_type)]) > Len(ret.rows)

\* The franchise lines of the three defense tables that a game-by-game
\* defense call for player_name and season asks for.
DefenseLinesAsked(player_name, season) ==
  UNION {{l \in db[t] :
            /\ Franchise(l.team)
            /\ \E p \in db.players :
                 p.player_id = l.player_id /\ NameMatches(p.player_name, player_name)
            /\ \E g \in GameOf(l) :
                 g.game_type # "preseason" /\ g.season \in Selected(season)} :
         t \in DefenseTables}

\* C24: every table alias that a statement of query_player_stats refers to is
\* bound by a FROM or JOIN of the SELECT it stands in, for each stat_type,
\* with and without season, career totals or not; so the game-by-game defense
\* call lists a player who has a line in any of the three defense tables.
C24_AliasesBound ==
  call.tool = "query_player_stats" =>
    /\ \A i \in DOMAIN issued : AliasesResolve(issued[i].sql)
    /\ (call.input.stat_type = "defense" /\ ~call.input.career_totals) =>
         /\ ret.kind = "rows"
         /\ \A l \in DefenseLinesAsked(call.input.player_name, call.input.season) :
              \E i \in DOMAIN ret.rows : RowOf(ret.rows[i], l)

\* C25: for every stat_type and scope, query_leaderboards called with the
\* default sort_by, 'yds', orders by a column that the statement it builds
\* has, so the statement is well-formed and the call answers with rows.
C25_DefaultSortColumnExists ==
  (call.tool = "query_leaderboards" /\ call.input.sort_by = "yds") =>
    /\ \A i \in DOMAIN issued : SplicesResolve(issued[i].sql)
    /\ ret.kind = "rows"

CareerDefenseBoard ==
  /\ call.tool = "query_leaderboards"
  /\ call.input.stat_type = "defense"
  /\ call.input.scope = "career"

\* C26: every player the defense career leaderboard lists has a franchise
\* line of a regular-season game in player_defense, player_sacks or
\* player_interceptions; a player whose franchise defense lines are all of
\* preseason or playoff games is not listed.
C26_ListedHaveRegularLines ==
  (CareerDefenseBoard /\ ret.kind = "rows") =>
    \A i \in DOMAIN ret.rows : DefenseTablesOf(ret.rows[i].player_id, Seasons) # {}

\* Every fetch the page started has settled, and no effect is due.
AllSettled ==
  /\ ~statsPage.effect
  /\ \A i \in DOMAIN statsPage.requests : statsPage.requests[i].state # "pending"
\* The request for the selection of now: the one the last effect started.
RequestOfSelection == statsPage.requests[Len(statsPage.requests)]

\* C27: in StatsPage, whatever the selections and the order of the responses,
\* once every request has completed the data shown is the response to the
\* request for the selected (scope, category), if that request succeeded, and
\* not the response to an earlier selection; and loading is false only when
\* the request for the selection is not outstanding.
C27_DataOfCurrentSelection ==
  statsPage.used =>
    /\ (/\ AllSettled
        /\ RequestOfSelection.state = "ok") =>
         statsPage.data = LeadersOf(statsPage.scope, statsPage.category)
    /\ (~statsPage.loading /\ ~statsPage.effect) => RequestOfSelection.state # "pending"

\* The statements that failed on their own with a message that contains
\* neither 'already exists' nor 'TRANSACTION'.
RECURSIVE CountIn(_, _)
CountIn(f, M) ==
  IF M = {} THEN 0
  ELSE LET m == CHOOSE x \in M : TRUE IN f[m] + CountIn(f, M \ {m})
UnexpectedFailures ==
  CountIn(upload.failed,
          {msg \in ErrorMessages :
             /\ ~Contains(msg, <<"a", "l", "r", "e", "a", "d", "y", " ", "e", "x", "i", "s", "t", "s">>)
             /\ ~Contains(msg, <<"T", "R", "A", "N", "S", "A", "C", "T", "I", "O", "N">>)})
\* The start of the batch that holds statement x.
BatchOf(x) == ((x - 1) \div BATCH_SIZE) * BATCH_SIZE

\* C28: whatever batches and statements fail, the loop of the upload script
\* terminates, and then executed is the number of statements; a statement is
\* sent on its own only if its batch failed, at most once in a batch and at
\* most once on its own; and errors is the number of statements that failed
\* on their own with a message containing neither 'already exists' nor
\* 'TRANSACTION'.
C28_UploadCountsEveryStatement ==
  /\ <>(upload.used /\ upload.pc = "done")
  /\ [](upload.used =>
          /\ upload.pc = "done" => upload.executed = upload.statements
          /\ \A x \in 1..upload.statements :
               /\ upload.batched[x] <= 1
               /\ upload.single[x] <= 1
               /\ upload.single[x] = 1 => BatchOf(x) \in upload.failedBatches
          /\ upload.pc \in {"batch", "done"} => upload.errors = UnexpectedFailures)

\* A run over two batches is through: the first batch failed, and of its
\* statements some failed with an expected message and some with another.
C28_Witness ==
  /\ upload.used
  /\ upload.pc = "done"
  /\ upload.statements > BATCH_SIZE
  /\ upload.failedBatches = {0}
  /\ upload.failed[AlreadyExists] > 0
  /\ upload.failed[LowerCaseTransaction] > 0
  /\ upload.errors > 0
  /\ upload.failed[InTransaction] > 0
  /\ upload.errors = upload.failed[LowerCaseTransaction]

\* A year parameter that is a number: decimal digits, after an optional sign.
NumericYear(str) ==
  LET d == IF str # <<>> /\ Head(str) \in {"-", "+"} THEN Tail(str) ELSE str
  IN d # <<>> /\ \A i \in DOMAIN d : d[i] \in Digits
IssuedBy(render) == {render.issued[i] : i \in DOMAIN render.issued}

\* C29: GamePage issues the eight detail queries of a game only after
\* getGame(id) has returned a game; when getGame(id) returns null the render
\* ends with not-found and none of the eight is issued.  The season detail
\* page ends with not-found for a year that is not a number, before it
\* issues any query.
C29_NotFoundBeforeQueries ==
  /\ (page.used /\ page.name = "GamePage") =>
       /\ IssuedBy(page) \cap GameDetailQueries # {} =>
            (page.game.js = "object" /\ page.issued[1] = "getGame")
       /\ page.game.js = "null" =>
            (page.end = "notFound" /\ IssuedBy(page) \cap GameDetailQueries = {})
  /\ (page.used /\ page.name = "SeasonDetailPage" /\ ~NumericYear(page.param)) =>
       (page.end = "notFound" /\ page.issued = <<>>)

\* The sort state that click k of the table found, and the one it left.
Found(k) == [sortCol |-> statTable.clicks[k].sortCol, sortAsc |-> statTable.clicks[k].sortAsc]
Left(k) ==
  IF k = Len(statTable.clicks)
    THEN [sortCol |-> statTable.sortCol, sortAsc |-> statTable.sortAsc]
    ELSE Found(k + 1)
\* Click k did what a click on a header is to do: on the sort column it
\* flipped sortAsc and kept sortCol, on another column it made that column
\* the sort column, descending.
Sorts(k) ==
  LET key == statTable.clicks[k].key
  IN Left(k) = IF key = Found(k).sortCol
                 THEN [sortCol |-> key, sortAsc |-> ~Found(k).sortAsc]
                 ELSE [sortCol |-> key, sortAsc |-> FALSE]
\* Two clicks in a row on the sort column restore the state.
TwoClicksRestore ==
  \A k \in 1..(Len(statTable.clicks) - 1) :
    (/\ statTable.clicks[k].key = Found(k).sortCol
     /\ statTable.clicks[k + 1].key = Found(k + 1).sortCol
     /\ Sorts(k) /\ Sorts(k + 1)) => Left(k + 1) = Found(k)
\* In the rendered order the rows without a value in the sort column come
\* after all rows with one.
NullsLast ==
  \A i, j \in DOMAIN statTable.sorted :
    (i < j /\ IsNullish(Prop(statTable.sorted[i], statTable.sortCol)))
      => IsNullish(Prop(statTable.sorted[j], statTable.sortCol))
\* The columns whose header cell sorts: those not declared sortable: false
SortableKeys ==
  {TableColumns[i].key :
     i \in {c \in DOMAIN TableColumns :
              "sortable" \notin DOMAIN TableColumns[c] \/ TableColumns[c].sortable # FALSE}}

\* C30 as stated: after any sequence of header clicks, every click on the
\* sort column flipped sortAsc and kept sortCol, every click on another
\* column made it the sort column with sortAsc false, two clicks on the sort
\* column restore the state, and rows without a value come last.
C30_EveryHeaderClickSorts ==
  statTable.used =>
    /\ \A k \in DOMAIN statTable.clicks : Sorts(k)
    /\ TwoClicksRestore
    /\ NullsLast

\* C30, amended: the above for the clicks on columns that are not declared
\* sortable: false; a click on a column declared sortable: false leaves
\* sortCol and sortAsc as they are.
C30_SortableHeaderClickSorts ==
  statTable.used =>
    /\ \A k \in DOMAIN statTable.clicks :
         IF statTable.clicks[k].key \in SortableKeys THEN Sorts(k) ELSE Left(k) = Found(k)
    /\ TwoClicksRestore
    /\ NullsLast
    /\ statTable.sorted = sorted(statTable.data, statTable.sortCol, statTable.sortAsc)

\* Two clicks on the sort column have restored the state, and a row without
\* yards that is first in data is rendered after a row with yards.
C30_Witness ==
  /\ statTable.used
  /\ Len(statTable.clicks) = 2
  /\ statTable.sortCol = "yds"
  /\ statTable.clicks[1].key = "yds" /\ statTable.clicks[2].key = "yds"
  /\ Found(1) = Left(2)
  /\ Found(1) # Left(1)
  /\ Len(statTable.data) = 2
  /\ IsNullish(Prop(statTable.data[1], "yds"))
  /\ ~IsNullish(Prop(statTable.data[2], "yds"))
  /\ statTable.sorted = <<statTable.data[2], statTable.data[1]>>

====
